---- MODULE Spec2Model ----
(***************************************************************************)
(* Model of the continuous monitoring core of mcp_lcu_server:              *)
(* MonitoringOperations (src/mcp_lcu_server/linux/monitoring.py).          *)
(*                                                                         *)
(* State: the configuration read by the constructor, the worker handle,    *)
(* the monitoring lock (a non-reentrant threading.Lock), the stop flag,    *)
(* the metrics store, every Thread object start_monitoring created, and    *)
(* the position of every caller thread inside the public call it makes,    *)
(* the host's readings and failing OS sources, the registered handlers,    *)
(* the second instance built by the resource layer, the clock and the I/O  *)
(* counters of the host and the locals of every running loop.              *)
(*                                                                         *)
(* Specifications: Spec (control and read calls, every configuration),     *)
(* HealthSpec (the health evaluation on every reading), QuerySpec (the     *)
(* snapshot and health calls in every lifecycle state), LoopSpec (the tick *)
(* with handlers and failing OS sources), FairSpec (Spec's steps under     *)
(* fair scheduling), ProcessSpec (tool layer and resource layer), RateSpec *)
(* (the disk series on a host whose clock and counters move), StatusSpec   *)
(* (the status scale on every reading), HandlerSpec (handlers that read    *)
(* the series, under fair scheduling).                                     *)
(***************************************************************************)
EXTENDS Integers, Sequences, FiniteSets, TLC

\* ------------------------------------------------------------------ bounds
\* Caller threads of the tool/resource layer that use one instance.
MaxCallers == 2
\* Thread objects start_monitoring may create in one behaviour.
MaxWorkers == 2
\* Ticks (readings of time.time() at the top of the loop body).
MaxTicks == 3
\* Largest count argument passed to get_*_metrics.
MaxCount == 3

\* Mounted partitions in a reading of the host.
MaxMounts == 2
\* Calls of register_callback in one behaviour.
MaxHandlers == 2
\* Largest value time.time() reports.
MaxTime == 1
\* Largest value of an I/O counter of the host.
MaxCounter == 1

\* ------------------------------------------------------- program constants
\* monitoring.py:66  self.max_metrics = 3600 // self.monitoring_interval
HistorySeconds == 3600

\* check_system_health, monitoring.py:267-340 (load in tenths: 3.0 and 1.5).
CpuCritical == 90
CpuWarning == 75
MemoryCritical == 90
MemoryWarning == 75
DiskCritical == 90
DiskWarning == 75
LoadCritical == 30
LoadWarning == 15

\* _calculate_system_status, monitoring.py:798-821.
StatusCritical == 90
StatusDegraded == 75
StatusWarning == 60

\* The sampling intervals the configuration may carry: capacities 2, 1, 0.
Intervals == {1800, 3600, 3601}
\* The values of config.monitoring.metrics ("system" is always collected).
MetricSets == {{"cpu"}, {"cpu", "memory", "disk", "network"}}

\* The value of an unset handle and of a free lock (thread ids are positive).
None == 0
Callers == 1 .. MaxCallers
Workers == 101 .. (100 + MaxWorkers)
Counts == 0 .. MaxCount

\* The keys of metrics_store, in the order the loop body visits them.
CatOrder == <<"cpu", "memory", "disk", "network", "system">>
Categories == {CatOrder[i] : i \in 1 .. Len(CatOrder)}

VARIABLES
    monitoring_enabled,     \* config.monitoring.enabled
    monitoring_interval,    \* config.monitoring.interval
    config_metrics,         \* config.monitoring.metrics
    monitoring_thread,      \* the worker handle: None or a Thread object
    monitoring_lock,        \* owner of the lock: None, a caller or a worker
    stop_monitoring_flag,   \* threading.Event
    metrics_store,          \* category -> list of samples
    threads,                \* Thread object -> its state (pc, category, sample)
    clock,                  \* number of ticks begun so far (time.time())
    callers,                \* caller thread -> position in its call
    lastCtl,                \* the last start/stop call that returned
    appended,               \* history: every sample ever appended, per category
    failing,                \* the OS sources that raise when read
    reading,                \* what the OS sources report when read
    callbacks,              \* self.callbacks: event type -> None (no key) or a list object
    lists,                  \* the list objects register_callback created, by identity
    registrations,          \* history: per event type, the handlers of the calls that returned
    publishing,             \* worker -> the _trigger_callbacks call it is in
    resource_ops,           \* the MonitoringOperations object of the resource layer
    host,                   \* time.time() and the I/O counters psutil reports
    loop,                   \* Thread object -> the locals of its _monitoring_loop
    ticked                  \* history: per tick, its current_time and its thread

vars == <<monitoring_enabled, monitoring_interval, config_metrics,
          monitoring_thread, monitoring_lock, stop_monitoring_flag,
          metrics_store, threads, clock, callers, lastCtl, appended,
          failing, reading, callbacks, lists, registrations, publishing,
          resource_ops, host, loop, ticked>>

\* The registry of handlers: the dictionary, the list objects it names or
\* named, and the history of the registrations.
registry == <<callbacks, lists, registrations>>

\* The host the instance runs on, the handlers registered with it and the
\* instance of the resource layer: what no call of the control path and no
\* query of this instance touches.
environment == <<failing, reading, registry, publishing, resource_ops, host>>

\* The locals of the running loops and the history of their ticks.
locals == <<loop, ticked>>

config == <<monitoring_enabled, monitoring_interval, config_metrics>>

\* ----------------------------------------------------------- list slicing
Min(a, b) == IF a < b THEN a ELSE b
Max(a, b) == IF a > b THEN a ELSE b

\* Python's normalisation of a slice start i for a list of length n.
PySliceStart(i, n) == IF i < 0 THEN Max(n + i, 0) ELSE Min(i, n)

\* lst[i:]
PySliceFrom(lst, i) == SubSeq(lst, PySliceStart(i, Len(lst)) + 1, Len(lst))

\* The k most recent elements of lst, oldest first (the specification's
\* reading of "the last k samples"), for 0 <= k <= Len(lst).
MostRecent(lst, k) == SubSeq(lst, Len(lst) - k + 1, Len(lst))

\* ------------------------------------------------------------ the host
\* The psutil calls monitoring.py makes itself (lines 410, 419, 577, 634,
\* 637, 741): a failure of one of them is an exception in monitoring.py.
OsSources == {"disk_io_counters", "net_io_counters", "net_connections", "boot_time"}

\* cpu.py:126-132: psutil.cpu_percent is called by cpu_ops.get_cpu_usage,
\* which catches its failure and answers 0.0.
WrappedSources == {"cpu_percent"}

\* A reading: CPU usage percent, memory percent, the percent of every
\* mounted partition in mount order, the 1-minute load per CPU in tenths.
QuietReading == [cpu |-> 0, mem |-> 0, disks |-> <<>>, load |-> 0]

\* The values around the two limits lo < hi of a check.
Around(lo, hi) == {lo, lo + 1, hi, hi + 1}

Readings ==
    [cpu : Around(CpuWarning, CpuCritical),
     mem : Around(MemoryWarning, MemoryCritical),
     disks : UNION {[1 .. n -> Around(DiskWarning, DiskCritical)] : n \in 0 .. MaxMounts},
     load : Around(LoadWarning, LoadCritical)]

\* The disks psutil.disk_io_counters(perdisk=True) and the interfaces
\* psutil.net_io_counters(pernic=True) can report.
Disks == {"sda"}
Nics == {"eth0"}

\* A host at time 0 whose counters stand at 0.  A counter stands for
\* read_bytes (bytes_sent) and the other fields treated like it.
QuietHost ==
    [time |-> 0,
     disk_io_counters |-> [d \in Disks |-> 0],
     net_io_counters |-> [n \in Nics |-> 0]]

\* ------------------------------------------------------------ constructor
max_metrics == HistorySeconds \div monitoring_interval

\* A sample: the tick whose collector produced it (its timestamp) and
\* whether it is the {"timestamp", "error"} record of a failed collection.
Sample(t, err) == [t |-> t, error |-> err]
NoSample == Sample(0, FALSE)

NewThread == [pc |-> "unstarted", cat |-> 0, tick |-> 0, sample |-> NoSample]

\* monitoring.py:381-383: the locals of _monitoring_loop when it is entered
\* at time now (None is the empty reading; current_time and elapsed_time
\* are assigned at the top of every tick, lines 388-389).
LoopLocals(now) ==
    [prev_net_counters |-> <<>>, prev_disk_counters |-> <<>>, prev_time |-> now,
     current_time |-> now, elapsed_time |-> 0]
IdleCaller == [pc |-> "idle", cat |-> "none", count |-> 0, ret |-> <<>>]

\* The event types _trigger_callbacks is called with (lines 395-428).
Events == Categories \cup {"status"}

\* The event types register_callback accepts: any string (lines 242-243).
\* "other" stands for the strings the loop never publishes.
EventTypes == Events \cup {"other"}

\* A worker that is in no _trigger_callbacks call.
NotPublishing ==
    [event |-> "none", list |-> 0, next |-> 0, registered |-> <<>>, called |-> <<>>,
     got |-> <<>>]

\* monitoring_resources.py:34: MonitoringResources.__init__ builds an
\* instance of its own; these are the fields __init__ gives it (lines 49-63).
ConstructedOps ==
    [monitoring_thread |-> None, monitoring_lock |-> None,
     metrics_store |-> [c \in Categories |-> <<>>]]

\* monitoring.py:46-66: the state __init__ leaves, whatever the configuration.
Constructed ==
    /\ monitoring_thread = None
    /\ monitoring_lock = None
    /\ stop_monitoring_flag = FALSE
    /\ metrics_store = [c \in Categories |-> <<>>]
    /\ threads = [w \in Workers |-> NewThread]
    /\ clock = 0
    /\ callers = [c \in Callers |-> IdleCaller]
    /\ lastCtl = [op |-> "none", ret |-> FALSE, running |-> FALSE]
    /\ appended = [c \in Categories |-> <<>>]
    /\ callbacks = [e \in EventTypes |-> None]
    /\ lists = <<>>
    /\ registrations = [e \in EventTypes |-> <<>>]
    /\ publishing = [w \in Workers |-> NotPublishing]
    /\ resource_ops = ConstructedOps
    /\ loop = [w \in Workers |-> LoopLocals(0)]
    /\ ticked = <<>>

\* The instance as the control and read calls of its callers see it, on a
\* host whose OS sources all answer.
Init ==
    /\ monitoring_enabled \in BOOLEAN
    /\ monitoring_interval \in Intervals
    /\ config_metrics \in MetricSets
    /\ Constructed
    /\ host = QuietHost
    /\ failing = {}
    /\ reading = QuietReading

\* ------------------------------------------------------------ thread state
\* Thread.is_alive(): started and _monitoring_loop has not returned.
IsAlive(t) == t # None /\ threads[t].pc \notin {"unstarted", "dead"}

AliveWorkers == {w \in Workers : IsAlive(w)}

\* A Thread object not yet handed out by threading.Thread(...).
FreshThreads == {w \in Workers : threads[w].pc = "unstarted"}

\* monitoring.py:75 / 103 / 128: the handle is set and its thread is alive.
WorkerRunning == monitoring_thread # None /\ IsAlive(monitoring_thread)


\* Variant of AlreadyRunning: start_monitoring without the test of line 75.
AlreadyRunning_NotTested == FALSE

\* ------------------------------------------------------- start_monitoring
\* monitoring.py:75  if self.monitoring_thread and self.monitoring_thread.is_alive()
AlreadyRunning == WorkerRunning

\* Variant of MonitoringDisabled: start_monitoring without the test of line 79.
MonitoringDisabled_NotTested == FALSE

\* monitoring.py:79  if not self.monitoring_enabled
MonitoringDisabled == ~monitoring_enabled

\* threading.Thread(target=self._monitoring_loop).start(): the new thread
\* is about to enter _monitoring_loop.
StartedThread == [pc |-> "started", cat |-> 0, tick |-> 0, sample |-> NoSample]

\* The whole body runs under the lock and never blocks: one step.
start_monitoring(c) ==
    /\ callers[c].pc = "idle"
    /\ monitoring_lock = None
    /\ IF AlreadyRunning \/ MonitoringDisabled
       THEN /\ lastCtl' = [op |-> "start", ret |-> FALSE,
                           running |-> AliveWorkers # {}]
            /\ UNCHANGED <<stop_monitoring_flag, monitoring_thread, threads>>
       ELSE /\ FreshThreads # {}
            /\ LET w == CHOOSE x \in FreshThreads : \A y \in FreshThreads : x <= y
               IN  /\ stop_monitoring_flag' = FALSE
                   /\ monitoring_thread' = w
                   /\ threads' = [threads EXCEPT ![w] = StartedThread]
            /\ lastCtl' = [op |-> "start", ret |-> TRUE,
                           running |-> AliveWorkers # {}]
    /\ UNCHANGED <<config, environment, locals, monitoring_lock, metrics_store, clock, callers, appended>>

\* Variant of NotRunning: stop_monitoring without the test of line 103.
NotRunning_NotTested == FALSE

\* -------------------------------------------------------- stop_monitoring
\* monitoring.py:103  if not self.monitoring_thread or not ...is_alive()
NotRunning == ~WorkerRunning

\* monitoring.py:102-111: take the lock, test, set the flag, enter join().
stop_monitoring(c) ==
    /\ callers[c].pc = "idle"
    /\ monitoring_lock = None
    /\ IF NotRunning
       THEN /\ lastCtl' = [op |-> "stop", ret |-> FALSE,
                           running |-> AliveWorkers # {}]
            /\ UNCHANGED <<stop_monitoring_flag, monitoring_lock, callers>>
       ELSE /\ stop_monitoring_flag' = TRUE
            /\ monitoring_lock' = c
            /\ callers' = [callers EXCEPT ![c].pc = "stop_join"]
            /\ UNCHANGED lastCtl
    /\ UNCHANGED <<config, environment, locals, monitoring_thread, metrics_store, threads, clock, appended>>

\* Positions in which the worker can stay longer than the grace period of
\* join(timeout=5.0): inside a collector, waiting for the monitoring lock,
\* inside a handler (also one that waits for the lock or holds it in its
\* get_*_metrics call), inside the psutil read of line 410 / 419, inside
\* time.sleep(interval).  The flag test at the top of the loop takes no time.
BlockingPcs ==
    {"collect", "add", "callbacks", "publishing", "handler_acquire", "handler_release",
     "counters", "sleep"}

\* monitoring.py:113  if self.monitoring_thread.is_alive(): return False
StillAlive == IsAlive(monitoring_thread)

\* Variant of HandleAfterJoin: the handle is cleared also after a timeout.
HandleAfterJoin_AlwaysCleared == None

\* monitoring.py:113-117: the handle is cleared only when the worker exited.
HandleAfterJoin == IF StillAlive THEN monitoring_thread ELSE None

\* Variant of StopResult: True is returned without the test of line 113.
StopResult_AlwaysTrue == TRUE

\* monitoring.py:113-119: the value stop_monitoring returns after join().
StopResult == ~StillAlive

\* Variant of StopReturn: stop_monitoring returns with the series emptied.
StopReturn_ClearsStore(c) ==
    /\ monitoring_thread' = HandleAfterJoin
    /\ lastCtl' = [op |-> "stop", ret |-> StopResult, running |-> TRUE]
    /\ monitoring_lock' = None
    /\ callers' = [callers EXCEPT ![c] = IdleCaller]
    /\ metrics_store' = [m \in Categories |-> <<>>]
    /\ UNCHANGED <<config, environment, locals, stop_monitoring_flag, threads, clock, appended>>

\* monitoring.py:113-119: stop_monitoring returns after join().
StopReturn(c) ==
    /\ monitoring_thread' = HandleAfterJoin
    /\ lastCtl' = [op |-> "stop", ret |-> StopResult, running |-> TRUE]
    /\ monitoring_lock' = None
    /\ callers' = [callers EXCEPT ![c] = IdleCaller]
    /\ UNCHANGED <<config, environment, locals, stop_monitoring_flag, metrics_store, threads, clock, appended>>

\* join() returned because the worker exited.
stop_join_exited(c) ==
    /\ callers[c].pc = "stop_join"
    /\ ~IsAlive(monitoring_thread)
    /\ StopReturn(c)

\* join() returned because 5 seconds passed.
stop_join_timeout(c) ==
    /\ callers[c].pc = "stop_join"
    /\ IsAlive(monitoring_thread)
    /\ threads[monitoring_thread].pc \in BlockingPcs
    /\ StopReturn(c)

\* ------------------------------------------------ read-only control calls
StatusRecord(running) ==
    [enabled |-> monitoring_enabled,
     running |-> running,
     interval |-> monitoring_interval,
     metrics |-> [m \in Categories |-> Len(metrics_store[m])]]

\* monitoring.py:136: get_monitoring_status takes the lock, then calls
\* is_monitoring_running (line 139).
get_monitoring_status(c) ==
    /\ callers[c].pc = "idle"
    /\ monitoring_lock = None
    /\ monitoring_lock' = c
    /\ callers' = [callers EXCEPT ![c].pc = "status_running"]
    /\ UNCHANGED <<config, environment, locals, monitoring_thread, stop_monitoring_flag, metrics_store,
                   threads, clock, lastCtl, appended>>

\* monitoring.py:127-128: is_monitoring_running takes the lock (a
\* threading.Lock: it has no owner and no recursion count, so the acquire
\* waits also when the calling thread is the holder) and reads the handle.
\* Called directly, or from get_monitoring_status, which then builds its
\* record from the value.
is_monitoring_running(c) ==
    /\ callers[c].pc \in {"idle", "status_running"}
    /\ monitoring_lock = None
    /\ monitoring_lock' = c
    /\ callers' = [callers EXCEPT ![c] =
            IF callers[c].pc = "idle"
            THEN [@ EXCEPT !.pc = "running_return", !.ret = WorkerRunning]
            ELSE [@ EXCEPT !.pc = "status_return", !.ret = StatusRecord(WorkerRunning)]]
    /\ UNCHANGED <<config, environment, locals, monitoring_thread, stop_monitoring_flag, metrics_store,
                   threads, clock, lastCtl, appended>>

\* ---------------------------------------------------------- get_*_metrics
\* monitoring.py:176  self.metrics_store[cat][-count:] if self.metrics_store[cat] else []
ReadMetrics(cat, count) ==
    IF metrics_store[cat] # <<>> THEN PySliceFrom(metrics_store[cat], -count) ELSE <<>>

\* get_cpu_metrics .. get_system_metrics: the five methods differ in the key.
get_metrics(c, cat, count) ==
    /\ callers[c].pc = "idle"
    /\ monitoring_lock = None
    /\ monitoring_lock' = c
    /\ callers' = [callers EXCEPT ![c] =
            [pc |-> "metrics_return", cat |-> cat, count |-> count,
             ret |-> ReadMetrics(cat, count)]]
    /\ UNCHANGED <<config, environment, locals, monitoring_thread, stop_monitoring_flag, metrics_store,
                   threads, clock, lastCtl, appended>>

\* Leaving the with-block of a query: the lock is released, the value returned.
query_return(c) ==
    /\ callers[c].pc \in {"running_return", "status_return", "metrics_return"}
    /\ monitoring_lock' = None
    /\ callers' = [callers EXCEPT ![c] = IdleCaller]
    /\ UNCHANGED <<config, environment, locals, monitoring_thread, stop_monitoring_flag, metrics_store,
                   threads, clock, lastCtl, appended>>

\* -------------------------------------------------------- _monitoring_loop
\* monitoring.py:392-422: a category is collected when the configuration
\* names it; "system" always is.
Collected(i) == CatOrder[i] = "system" \/ CatOrder[i] \in config_metrics

\* The first collected category at or after position i.
NextCat(i) == CHOOSE j \in i .. Len(CatOrder) :
                 /\ Collected(j)
                 /\ \A k \in i .. (j - 1) : ~Collected(k)

\* monitoring.py:381-383: the new thread enters _monitoring_loop: its
\* locals are set, prev_time from time.time(), and it reaches the test of
\* the loop.
loop_enter(w) ==
    /\ threads[w].pc = "started"
    /\ threads' = [threads EXCEPT ![w].pc = "check"]
    /\ loop' = [loop EXCEPT ![w] = LoopLocals(host.time)]
    /\ UNCHANGED <<config, environment, ticked, monitoring_thread, monitoring_lock, stop_monitoring_flag,
                   metrics_store, clock, callers, lastCtl, appended>>

\* Variant of LoopEnds: while True, the loop never reads the flag.
LoopEnds_Never == FALSE

\* monitoring.py:385  while not self.stop_monitoring_flag.is_set()
LoopEnds == stop_monitoring_flag

\* monitoring.py:385: the flag is set: the loop ends and the thread dies,
\* its locals with it.
worker_exit(w) ==
    /\ threads[w].pc = "check"
    /\ LoopEnds
    /\ threads' = [threads EXCEPT ![w].pc = "dead"]
    /\ loop' = [loop EXCEPT ![w] = LoopLocals(0)]
    /\ UNCHANGED <<config, environment, ticked, monitoring_thread, monitoring_lock, stop_monitoring_flag,
                   metrics_store, clock, callers, lastCtl, appended>>

\* monitoring.py:385-389: the flag is clear: a tick begins.
tick_begin(w) ==
    /\ threads[w].pc = "check"
    /\ ~LoopEnds
    /\ clock < MaxTicks
    /\ clock' = clock + 1
    /\ threads' = [threads EXCEPT ![w] =
            [pc |-> "collect", cat |-> NextCat(1), tick |-> clock + 1, sample |-> NoSample]]
    /\ loop' = [loop EXCEPT ![w].current_time = host.time,
                            ![w].elapsed_time = host.time - loop[w].prev_time]
    /\ ticked' = Append(ticked, [current_time |-> host.time, thread |-> w])
    /\ UNCHANGED <<config, environment, monitoring_thread, monitoring_lock, stop_monitoring_flag,
                   metrics_store, callers, lastCtl, appended>>

\* monitoring.py:474-760: the try-block of the collector of category m raises
\* (and its except-branch returns the {"timestamp", "error"} record) when a
\* psutil call it makes itself fails.  _collect_cpu_metrics and
\* _collect_memory_metrics read only through cpu_ops and memory_ops.  The
\* network collector calls net_io_counters (line 634) and net_connections
\* (line 637).
CollectorFails(m) ==
    \/ m = "disk" /\ "disk_io_counters" \in failing
    \/ m = "network" /\ failing \cap {"net_io_counters", "net_connections"} # {}
    \/ m = "system" /\ "boot_time" \in failing

\* Variant of IoRates: the rates are computed without the test of line 580.
IoRates_Untested(io_counters, prev_counters, elapsed_time) ==
    [d \in DOMAIN io_counters \cap DOMAIN prev_counters |->
        [delta |-> io_counters[d] - prev_counters[d], elapsed |-> elapsed_time]]

\* monitoring.py:580-595 (669-683): a rate for every device of this reading
\* that the previous reading has too, when there is a previous reading and
\* time has passed.  The quotient (counters - prev) / elapsed_time is kept as
\* its numerator and its denominator.
IoRates(io_counters, prev_counters, elapsed_time) ==
    IF prev_counters # <<>> /\ elapsed_time > 0
    THEN [d \in DOMAIN io_counters \cap DOMAIN prev_counters |->
             [delta |-> io_counters[d] - prev_counters[d], elapsed |-> elapsed_time]]
    ELSE <<>>

\* monitoring.py:576-613 (634-708): the sample of the disk (network)
\* collector: the counters it reads and the rates against prev_counters.
CollectIoMetrics(m, t, io_counters, prev_counters, elapsed_time) ==
    IF CollectorFails(m)
    THEN Sample(t, TRUE)
    ELSE [t |-> t, error |-> FALSE, io_counters |-> io_counters,
          io_rates |-> IoRates(io_counters, prev_counters, elapsed_time)]

\* monitoring.py:392-422: the collector call of category m in the tick t of
\* worker w.
CollectMetrics(w, m, t) ==
    IF m = "disk"
    THEN CollectIoMetrics(m, t, host.disk_io_counters,
                          loop[w].prev_disk_counters, loop[w].elapsed_time)
    ELSE IF m = "network"
    THEN CollectIoMetrics(m, t, host.net_io_counters,
                          loop[w].prev_net_counters, loop[w].elapsed_time)
    ELSE Sample(t, CollectorFails(m))

\* _collect_<category>_metrics: the sample of this tick.
collect_metrics(w) ==
    /\ threads[w].pc = "collect"
    /\ threads' = [threads EXCEPT
            ![w].pc = "add",
            ![w].sample = CollectMetrics(w, CatOrder[threads[w].cat], threads[w].tick)]
    /\ UNCHANGED <<config, environment, locals, monitoring_thread, monitoring_lock, stop_monitoring_flag,
                   metrics_store, clock, callers, lastCtl, appended>>

\* monitoring.py:446-448: take the lock and append.
add_metrics_append(w) ==
    /\ threads[w].pc = "add"
    /\ monitoring_lock = None
    /\ monitoring_lock' = w
    /\ LET m == CatOrder[threads[w].cat]
       IN  /\ metrics_store' = [metrics_store EXCEPT ![m] = Append(@, threads[w].sample)]
           /\ appended' = [appended EXCEPT ![m] = Append(@, threads[w].sample)]
    /\ threads' = [threads EXCEPT ![w].pc = "trim"]
    /\ UNCHANGED <<config, environment, locals, monitoring_thread, stop_monitoring_flag, clock, callers, lastCtl>>

\* Variant of TrimSeries: the slice keeps the oldest samples, lst[:max_metrics].
TrimSeries_KeepsOldest(lst) ==
    IF Len(lst) > max_metrics THEN SubSeq(lst, 1, max_metrics) ELSE lst

\* monitoring.py:451-452
TrimSeries(lst) ==
    IF Len(lst) > max_metrics THEN PySliceFrom(lst, -max_metrics) ELSE lst

\* monitoring.py:451-452: trim, then leave the with-block.
add_metrics_trim(w) ==
    /\ threads[w].pc = "trim"
    /\ LET m == CatOrder[threads[w].cat]
       IN  metrics_store' = [metrics_store EXCEPT ![m] = TrimSeries(@)]
    /\ monitoring_lock' = None
    /\ threads' = [threads EXCEPT ![w].pc = "callbacks"]
    /\ UNCHANGED <<config, environment, locals, monitoring_thread, stop_monitoring_flag, clock, callers,
                   lastCtl, appended>>

\* monitoring.py:410 / 419 / 431: the assignment that follows the handlers
\* of category m: the previous counters are read anew from psutil after the
\* disk (network) handlers, prev_time becomes current_time after the
\* "system" and "status" handlers.
AfterCategory(w, m) ==
    IF m = "disk" THEN [loop[w] EXCEPT !.prev_disk_counters = host.disk_io_counters]
    ELSE IF m = "network" THEN [loop[w] EXCEPT !.prev_net_counters = host.net_io_counters]
    ELSE IF m = "system" THEN [loop[w] EXCEPT !.prev_time = loop[w].current_time]
    ELSE loop[w]

\* self.callbacks[e] when the key is there, the empty list otherwise.
CallbackList(e) == IF callbacks[e] = None THEN <<>> ELSE lists[callbacks[e]]

\* No handler is registered for an event the loop publishes.
NothingRegistered == \A e \in Events : CallbackList(e) = <<>>

\* _trigger_callbacks for the category (and, after "system", for the derived
\* "status" event, lines 427-431) when there is no handler to call, and the
\* counter read of line 410 / 419 when it answers; then the next category
\* or the sleep.
trigger_callbacks(w) ==
    /\ threads[w].pc = "callbacks"
    /\ NothingRegistered
    /\ failing = {}
    /\ threads' = [threads EXCEPT ![w] =
            IF CatOrder[threads[w].cat] = "system"
            THEN [@ EXCEPT !.pc = "sleep"]
            ELSE [@ EXCEPT !.pc = "collect", !.cat = NextCat(threads[w].cat + 1)]]
    /\ loop' = [loop EXCEPT ![w] = AfterCategory(w, CatOrder[threads[w].cat])]
    /\ UNCHANGED <<config, environment, ticked, monitoring_thread, monitoring_lock, stop_monitoring_flag,
                   metrics_store, clock, callers, lastCtl, appended>>

\* monitoring.py:434: time.sleep(self.monitoring_interval) returns.
sleep_done(w) ==
    /\ threads[w].pc = "sleep"
    /\ threads' = [threads EXCEPT ![w].pc = "check"]
    /\ UNCHANGED <<config, environment, locals, monitoring_thread, monitoring_lock, stop_monitoring_flag,
                   metrics_store, clock, callers, lastCtl, appended>>

\* ------------------------------------------------------- get_system_status
\* cpu.py:126-132: get_cpu_usage answers psutil.cpu_percent, or 0.0 when
\* that call raises.
GetCpuUsage == IF "cpu_percent" \in failing THEN 0 ELSE reading.cpu

\* monitoring.py:716-760: the system summary, or the {"timestamp", "error"}
\* record when the collection raised.
CollectSystemMetrics(now) ==
    IF CollectorFails("system")
    THEN [timestamp |-> now, error |-> TRUE]
    ELSE [timestamp |-> now, error |-> FALSE,
          cpu_usage |-> GetCpuUsage, memory_usage |-> reading.mem,
          load_average |-> reading.load, disk_usage |-> reading.disks]

\* metrics.get(key, default) of lines 776-786.
MetricsGet(metrics, key, default) ==
    IF key \in DOMAIN metrics THEN metrics[key] ELSE default

\* Variant of StatusAfter: the elif branches without their tests of status.
StatusAfter_Overwrites(status, v) ==
    IF v > StatusCritical THEN "Critical"
    ELSE IF v > StatusDegraded THEN "Degraded"
    ELSE IF v > StatusWarning THEN "Warning"
    ELSE status

\* monitoring.py:798-803 (and 806-811): one if/elif/elif of the status scale.
StatusAfter(status, v) ==
    IF v > StatusCritical THEN "Critical"
    ELSE IF v > StatusDegraded /\ status # "Critical" THEN "Degraded"
    ELSE IF v > StatusWarning /\ status \notin {"Critical", "Degraded"} THEN "Warning"
    ELSE status

\* Variant of StatusAfterDisks: the status without the loop over the mounts.
StatusAfterDisks_Skipped(status, disks, i) == status

\* monitoring.py:814-821: the loop over the mounts, left at the first
\* critical one.
RECURSIVE StatusAfterDisks(_, _, _)
StatusAfterDisks(status, disks, i) ==
    IF i > Len(disks) THEN status
    ELSE IF disks[i] > StatusCritical THEN "Critical"
    ELSE StatusAfterDisks(StatusAfter(status, disks[i]), disks, i + 1)

\* monitoring.py:762-852.  prev_metrics is a parameter the body never reads.
\* load_average stands for its "1min_per_cpu" entry, in tenths; a disk of
\* the list stands for its "percent" entry, the mount being its position.
CalculateSystemStatus(metrics, prev_metrics, now) ==
    LET cpu_usage == MetricsGet(metrics, "cpu_usage", 0)
        memory_usage == MetricsGet(metrics, "memory_usage", 0)
        load_avg == MetricsGet(metrics, "load_average", 0)
        disk_usage == MetricsGet(metrics, "disk_usage", <<>>)
    IN  [timestamp |-> now,
         status |-> StatusAfterDisks(
                        StatusAfter(StatusAfter("Healthy", cpu_usage), memory_usage),
                        disk_usage, 1),
         cpu |-> [usage_percent |-> cpu_usage, load_average |-> load_avg],
         memory |-> [percent |-> memory_usage],
         disks |-> disk_usage]

\* monitoring.py:155  self.metrics_store["system"][-1] if ... else None
PrevSystemMetrics ==
    IF metrics_store["system"] # <<>>
    THEN <<metrics_store["system"][Len(metrics_store["system"])]>>
    ELSE <<>>

\* monitoring.py:150-160
GetSystemStatus(now) ==
    CalculateSystemStatus(CollectSystemMetrics(now), PrevSystemMetrics, now)

\* ----------------------------------------------------- check_system_health
Issue(component, severity, mount, v) ==
    [component |-> component, severity |-> severity, mount |-> mount, value |-> v]

RaiseToWarning_Always(st) ==
    [status |-> "Warning", severity |-> 2]

\* monitoring.py:276-278  if severity < 2: health_status = "Warning"; severity = 2
RaiseToWarning(st) ==
    IF st.severity < 2
    THEN [status |-> "Warning", severity |-> 2]
    ELSE [status |-> st.status, severity |-> st.severity]

HealthCheck_AtLeast(st, component, mount, v, critical, warning) ==
    IF v >= critical
    THEN [status |-> "Critical", severity |-> 3,
          issues |-> Append(st.issues, Issue(component, "critical", mount, v))]
    ELSE IF v >= warning
    THEN [status |-> RaiseToWarning(st).status,
          severity |-> RaiseToWarning(st).severity,
          issues |-> Append(st.issues, Issue(component, "warning", mount, v))]
    ELSE st

\* One check of lines 265-348: st is health_status, severity and issues.
HealthCheck(st, component, mount, v, critical, warning) ==
    IF v > critical
    THEN [status |-> "Critical", severity |-> 3,
          issues |-> Append(st.issues, Issue(component, "critical", mount, v))]
    ELSE IF v > warning
    THEN [status |-> RaiseToWarning(st).status,
          severity |-> RaiseToWarning(st).severity,
          issues |-> Append(st.issues, Issue(component, "warning", mount, v))]
    ELSE st

\* monitoring.py:306-326
RECURSIVE HealthCheckDisks(_, _, _)
HealthCheckDisks(st, disks, i) ==
    IF i > Len(disks) THEN st
    ELSE HealthCheckDisks(
            HealthCheck(st, "disk", i, disks[i], DiskCritical, DiskWarning), disks, i + 1)

HasCritical_AnyIssue(issues, component) ==
    \E i \in 1 .. Len(issues) : issues[i].component = component

\* monitoring.py:353-363: one recommendation per component with a critical issue.
HasCritical(issues, component) ==
    \E i \in 1 .. Len(issues) :
        issues[i].component = component /\ issues[i].severity = "critical"

Recommendations(issues) ==
    (IF HasCritical(issues, "cpu")
        THEN <<"Identify and terminate CPU-intensive processes">> ELSE <<>>)
    \o (IF HasCritical(issues, "memory")
        THEN <<"Check for memory leaks or increase system memory">> ELSE <<>>)
    \o (IF HasCritical(issues, "disk")
        THEN <<"Free up disk space by removing unnecessary files">> ELSE <<>>)
    \o (IF HasCritical(issues, "load")
        THEN <<"Reduce system load by terminating unnecessary processes">> ELSE <<>>)

\* monitoring.py:260-348: the four checks in their order.
HealthEvaluation(status) ==
    LET st0 == [status |-> "Healthy", severity |-> 0, issues |-> <<>>]
        st1 == HealthCheck(st0, "cpu", 0, status.cpu.usage_percent, CpuCritical, CpuWarning)
        st2 == HealthCheck(st1, "memory", 0, status.memory.percent, MemoryCritical, MemoryWarning)
        st3 == HealthCheckDisks(st2, status.disks, 1)
    IN  HealthCheck(st3, "load", 0, status.cpu.load_average, LoadCritical, LoadWarning)

CheckSystemHealth_UsesHistory(status, system_metrics, now) ==
    [timestamp |-> now,
     status |-> IF system_metrics = <<>> THEN "Unknown" ELSE HealthEvaluation(status).status,
     issues |-> HealthEvaluation(status).issues,
     recommendations |-> Recommendations(HealthEvaluation(status).issues),
     system_status |-> status]

\* monitoring.py:253-374: the report built from the snapshot.  system_metrics
\* (the result of get_system_metrics(60), line 258) is read and never used.
CheckSystemHealth(status, system_metrics, now) ==
    [timestamp |-> now,
     status |-> HealthEvaluation(status).status,
     issues |-> HealthEvaluation(status).issues,
     recommendations |-> Recommendations(HealthEvaluation(status).issues),
     system_status |-> status]

\* get_system_status: no lock; the snapshot goes to the caller.
get_system_status(c) ==
    /\ callers[c].pc = "idle"
    /\ callers' = [callers EXCEPT ![c] =
            [@ EXCEPT !.pc = "system_status_return", !.ret = GetSystemStatus(clock)]]
    /\ UNCHANGED <<config, environment, locals, monitoring_thread, monitoring_lock,
                   stop_monitoring_flag, metrics_store, threads, clock, lastCtl, appended>>

\* monitoring.py:255-257: check_system_health begins with get_system_status(),
\* which takes no lock; the snapshot is in hand.
check_system_health(c) ==
    /\ callers[c].pc = "idle"
    /\ callers' = [callers EXCEPT ![c] =
            [@ EXCEPT !.pc = "health_status", !.ret = GetSystemStatus(clock)]]
    /\ UNCHANGED <<config, environment, locals, monitoring_thread, monitoring_lock,
                   stop_monitoring_flag, metrics_store, threads, clock, lastCtl, appended>>

\* monitoring.py:258 (231-232): get_system_metrics(60) waits for the lock,
\* takes it and reads the system series.
check_system_health_metrics(c) ==
    /\ callers[c].pc = "health_status"
    /\ monitoring_lock = None
    /\ monitoring_lock' = c
    /\ callers' = [callers EXCEPT ![c] =
            [@ EXCEPT !.pc = "health_metrics",
                      !.ret = [system_status |-> callers[c].ret,
                               system_metrics |-> ReadMetrics("system", 60)]]]
    /\ UNCHANGED <<config, environment, locals, monitoring_thread,
                   stop_monitoring_flag, metrics_store, threads, clock, lastCtl, appended>>

\* monitoring.py:233: the with-block of get_system_metrics is left and the
\* snapshot returned; from here on the call holds no lock.
check_system_health_release(c) ==
    /\ callers[c].pc = "health_metrics"
    /\ monitoring_lock' = None
    /\ callers' = [callers EXCEPT ![c].pc = "health_evaluate"]
    /\ UNCHANGED <<config, environment, locals, monitoring_thread,
                   stop_monitoring_flag, metrics_store, threads, clock, lastCtl, appended>>

\* monitoring.py:260-374: the evaluation of the snapshot, stamped with a
\* second reading of the time (line 367); the report is in hand.
check_system_health_evaluate(c) ==
    /\ callers[c].pc = "health_evaluate"
    /\ callers' = [callers EXCEPT ![c] =
            [@ EXCEPT !.pc = "health_return",
                      !.ret = CheckSystemHealth(callers[c].ret.system_status,
                                                callers[c].ret.system_metrics, clock)]]
    /\ UNCHANGED <<config, environment, locals, monitoring_thread, monitoring_lock,
                   stop_monitoring_flag, metrics_store, threads, clock, lastCtl, appended>>

\* The caller takes the value of a call that holds no lock.
call_return(c) ==
    /\ callers[c].pc \in {"system_status_return", "health_return"}
    /\ callers' = [callers EXCEPT ![c] = IdleCaller]
    /\ UNCHANGED <<config, environment, locals, monitoring_thread, monitoring_lock,
                   stop_monitoring_flag, metrics_store, threads, clock, lastCtl, appended>>

\* The health evaluation on every reading of the host.
InitHealth ==
    /\ monitoring_enabled = TRUE
    /\ monitoring_interval = HistorySeconds
    /\ config_metrics = {"cpu"}
    /\ Constructed
    /\ host = QuietHost
    /\ failing = {}
    /\ reading \in Readings

\* One caller asks for snapshots and reports.
NextHealth ==
    \/ get_system_status(1)
    \/ check_system_health(1)
    \/ check_system_health_metrics(1)
    \/ check_system_health_release(1)
    \/ check_system_health_evaluate(1)
    \/ call_return(1)

HealthSpec == InitHealth /\ [][NextHealth]_vars

\* ------------------------------------------- the tick with handlers and failures
\* The handler functions passed to register_callback: one that raises an
\* Exception whenever it is called, one that returns.
Handlers == {1, 2}

\* The handlers that raise an Exception whenever they are called.
RaisingHandlers == {1}

\* The caller is inside register_callback.
Registering(c) == callers[c].pc \in {"register_store", "register_append"}

\* The register_callback calls made so far: those that returned and those
\* in progress.
TotalRegistered ==
    Len(registrations["cpu"]) + Len(registrations["memory"]) + Len(registrations["disk"])
    + Len(registrations["network"]) + Len(registrations["system"])
    + Len(registrations["status"]) + Len(registrations["other"])
    + Cardinality({c \in Callers : Registering(c)})

\* monitoring.py:242: register_callback takes no lock; it begins with the
\* test 'event_type not in self.callbacks'.
register_callback(c, e, h) ==
    /\ callers[c].pc = "idle"
    /\ TotalRegistered < MaxHandlers
    /\ callers' = [callers EXCEPT ![c] =
            [pc |-> IF callbacks[e] = None THEN "register_store" ELSE "register_append",
             cat |-> e, count |-> 0, ret |-> h]]
    /\ UNCHANGED <<config, host, locals, failing, reading, publishing, resource_ops,
                   monitoring_thread, monitoring_lock, stop_monitoring_flag, metrics_store,
                   threads, clock, lastCtl, appended, registry>>

\* monitoring.py:243: the key was not there when it was tested: a new empty
\* list is stored under it, whatever the dictionary holds there by now.
register_store(c) ==
    /\ callers[c].pc = "register_store"
    /\ lists' = Append(lists, <<>>)
    /\ callbacks' = [callbacks EXCEPT ![callers[c].cat] = Len(lists) + 1]
    /\ callers' = [callers EXCEPT ![c].pc = "register_append"]
    /\ UNCHANGED <<config, host, locals, failing, reading, publishing, resource_ops,
                   monitoring_thread, monitoring_lock, stop_monitoring_flag, metrics_store,
                   threads, clock, lastCtl, appended, registrations>>

\* monitoring.py:245: the handler goes to the end of the list the
\* dictionary holds now, whether or not that list holds it already; the
\* call returns.
register_append(c) ==
    /\ callers[c].pc = "register_append"
    /\ lists' = [lists EXCEPT ![callbacks[callers[c].cat]] = Append(@, callers[c].ret)]
    /\ registrations' = [registrations EXCEPT ![callers[c].cat] = Append(@, callers[c].ret)]
    /\ callers' = [callers EXCEPT ![c] = IdleCaller]
    /\ UNCHANGED <<config, host, locals, failing, reading, publishing, resource_ops,
                   monitoring_thread, monitoring_lock, stop_monitoring_flag, metrics_store,
                   threads, clock, lastCtl, appended, callbacks>>

\* Variant of AfterException: no try/except around the tick body.
AfterException_Uncaught == "dead"

\* monitoring.py:435-437: an exception of the tick body is logged and the
\* worker sleeps one interval.
AfterException == "sleep"

\* monitoring.py:463-466: what the for loop of _trigger_callbacks sees of
\* the call of h: the exception of a raising handler is caught and logged
\* inside the loop body, it is never "raised" out of it.
CallbackOutcome(h) == IF h \in RaisingHandlers THEN "caught" ELSE "returned"

\* monitoring.py:395-428: the event of the _trigger_callbacks call the worker
\* is about to make: its category, or "status" after the "system" event.
NextEvent(w) == IF threads[w].pc = "status" THEN "status" ELSE CatOrder[threads[w].cat]

\* monitoring.py:460-461: the test 'event_type in self.callbacks' and the
\* start of the for loop over the list object the dictionary holds (None:
\* there is no key and no loop).  The handlers whose registration has
\* returned by now are noted.
publish_begin(w) ==
    /\ threads[w].pc \in {"callbacks", "status"}
    /\ publishing' = [publishing EXCEPT ![w] =
            [event |-> NextEvent(w), list |-> callbacks[NextEvent(w)], next |-> 1,
             registered |-> registrations[NextEvent(w)], called |-> <<>>, got |-> <<>>]]
    /\ threads' = [threads EXCEPT ![w].pc = "publishing"]
    /\ UNCHANGED <<config, host, locals, failing, reading, registry, resource_ops, monitoring_thread,
                   monitoring_lock, stop_monitoring_flag, metrics_store, clock, callers,
                   lastCtl, appended>>

\* A handler whose body is get_<category>_metrics(count) for the category of
\* the event it is registered for.
QueryingHandler == Cardinality(Handlers) + 1

\* The list object the for loop of the worker iterates.
Iterated(w) == IF publishing[w].list = None THEN <<>> ELSE lists[publishing[w].list]

\* The handler the worker is about to call: the next one of that list.
HandlerDue(w) == Iterated(w)[publishing[w].next]

\* The handler about to be called reads the series of the event's category
\* with get_*_metrics: it needs the lock (lines 175, 189, 203, 217, 231).
HandlerNeedsLock(w) ==
    HandlerDue(w) = QueryingHandler /\ publishing[w].event \in Categories

\* monitoring.py:461-466: the next handler of the list is called.  A handler
\* that takes no lock runs and comes back (an exception of it is caught,
\* lines 464-466); a handler that calls get_*_metrics is now at the acquire
\* of the lock, on the worker thread.
invoke_callback(w) ==
    /\ threads[w].pc = "publishing"
    /\ publishing[w].next <= Len(Iterated(w))
    /\ LET h == HandlerDue(w)
       IN  IF CallbackOutcome(h) = "raised"
           THEN /\ publishing' = [publishing EXCEPT ![w] = NotPublishing]
                /\ threads' = [threads EXCEPT ![w].pc = AfterException]
           ELSE IF HandlerNeedsLock(w)
           THEN /\ threads' = [threads EXCEPT ![w].pc = "handler_acquire"]
                /\ UNCHANGED publishing
           ELSE /\ publishing' = [publishing EXCEPT ![w].next = @ + 1,
                                                    ![w].called = Append(@, h),
                                                    ![w].got = <<>>]
                /\ UNCHANGED threads
    /\ UNCHANGED <<config, host, locals, failing, reading, registry, resource_ops, monitoring_thread,
                   monitoring_lock, stop_monitoring_flag, metrics_store, clock, callers,
                   lastCtl, appended>>

\* monitoring.py:175-176 (189-190, 203-204, 217-218, 231-232) inside the
\* handler: the worker thread waits for the lock, takes it and reads the
\* series with the count the handler passes.
handler_get_metrics(w) ==
    /\ threads[w].pc = "handler_acquire"
    /\ monitoring_lock = None
    /\ monitoring_lock' = w
    /\ \E count \in Counts :
          publishing' = [publishing EXCEPT ![w].got = ReadMetrics(publishing[w].event, count)]
    /\ threads' = [threads EXCEPT ![w].pc = "handler_release"]
    /\ UNCHANGED <<config, host, locals, failing, reading, registry, resource_ops, monitoring_thread,
                   stop_monitoring_flag, metrics_store, clock, callers, lastCtl, appended>>

\* monitoring.py:177 (191, 205, 219, 233) and 463: the with-block is left,
\* the lock given back; the handler returns to the for loop.
handler_return(w) ==
    /\ threads[w].pc = "handler_release"
    /\ monitoring_lock' = None
    /\ publishing' = [publishing EXCEPT ![w].next = @ + 1,
                                        ![w].called = Append(@, HandlerDue(w))]
    /\ threads' = [threads EXCEPT ![w].pc = "publishing"]
    /\ UNCHANGED <<config, host, locals, failing, reading, registry, resource_ops, monitoring_thread,
                   stop_monitoring_flag, metrics_store, clock, callers, lastCtl, appended>>

\* The list is exhausted: _trigger_callbacks returns, the tick goes on with
\* the counter read (lines 410, 419), the "status" event (line 427), the
\* sleep (line 434) or the next category.
publish_end(w) ==
    /\ threads[w].pc = "publishing"
    /\ publishing[w].next > Len(Iterated(w))
    /\ threads' = [threads EXCEPT ![w] =
            IF publishing[w].event = "status" THEN [@ EXCEPT !.pc = "sleep"]
            ELSE IF publishing[w].event = "system" THEN [@ EXCEPT !.pc = "status"]
            ELSE IF publishing[w].event \in {"disk", "network"} THEN [@ EXCEPT !.pc = "counters"]
            ELSE [@ EXCEPT !.pc = "collect", !.cat = NextCat(threads[w].cat + 1)]]
    /\ publishing' = [publishing EXCEPT ![w] = NotPublishing]
    /\ loop' = [loop EXCEPT ![w] =
            IF publishing[w].event = "status" THEN AfterCategory(w, "system") ELSE @]
    /\ UNCHANGED <<config, host, ticked, failing, reading, registry, resource_ops, monitoring_thread,
                   monitoring_lock, stop_monitoring_flag, metrics_store, clock, callers,
                   lastCtl, appended>>

\* monitoring.py:410 / 419: the psutil call that updates the previous counters.
CounterSource(w) ==
    IF CatOrder[threads[w].cat] = "disk" THEN "disk_io_counters" ELSE "net_io_counters"

\* The call is outside the collector: when it raises, the rest of the tick
\* is skipped (line 435).
read_io_counters(w) ==
    /\ threads[w].pc = "counters"
    /\ threads' = [threads EXCEPT ![w] =
            IF CounterSource(w) \in failing
            THEN [@ EXCEPT !.pc = AfterException]
            ELSE [@ EXCEPT !.pc = "collect", !.cat = NextCat(threads[w].cat + 1)]]
    /\ loop' = [loop EXCEPT ![w] =
            IF CounterSource(w) \in failing THEN @
            ELSE AfterCategory(w, CatOrder[threads[w].cat])]
    /\ UNCHANGED <<config, environment, ticked, monitoring_thread, monitoring_lock,
                   stop_monitoring_flag, metrics_store, clock, callers, lastCtl, appended>>

\* The host with at most one OS source out of order.
InitLoop ==
    /\ monitoring_enabled = TRUE
    /\ monitoring_interval = HistorySeconds \div 2
    /\ config_metrics = {"cpu", "memory", "disk", "network"}
    /\ Constructed
    /\ host = QuietHost
    /\ failing \in {{}, {"disk_io_counters"}, {"net_io_counters"}, {"net_connections"}}
    /\ reading = QuietReading

\* One caller starts and stops; no handler is registered.
NextLoop ==
    \/ start_monitoring(1)
    \/ stop_monitoring(1)
    \/ stop_join_exited(1)
    \/ stop_join_timeout(1)
    \/ \E w \in Workers : loop_enter(w)
    \/ \E w \in Workers : worker_exit(w)
    \/ \E w \in Workers : tick_begin(w)
    \/ \E w \in Workers : collect_metrics(w)
    \/ \E w \in Workers : add_metrics_append(w)
    \/ \E w \in Workers : add_metrics_trim(w)
    \/ \E w \in Workers : publish_begin(w)
    \/ \E w \in Workers : publish_end(w)
    \/ \E w \in Workers : read_io_counters(w)
    \/ \E w \in Workers : sleep_done(w)

LoopSpec == InitLoop /\ [][NextLoop]_vars

\* ------------------------------------------------------------ registrations
\* The four categories are collected and no OS source fails.
InitRegistry ==
    /\ monitoring_enabled = TRUE
    /\ monitoring_interval = HistorySeconds \div 2
    /\ config_metrics = {"cpu", "memory", "disk", "network"}
    /\ Constructed
    /\ host = QuietHost
    /\ failing = {}
    /\ reading = QuietReading

\* One caller starts the worker; every caller thread registers handlers, at
\* any time.
NextRegistry ==
    \/ start_monitoring(1)
    \/ \E c \in Callers, e \in {"cpu", "status"}, h \in Handlers : register_callback(c, e, h)
    \/ \E c \in Callers : register_store(c)
    \/ \E c \in Callers : register_append(c)
    \/ \E w \in Workers : loop_enter(w)
    \/ \E w \in Workers : tick_begin(w)
    \/ \E w \in Workers : collect_metrics(w)
    \/ \E w \in Workers : add_metrics_append(w)
    \/ \E w \in Workers : add_metrics_trim(w)
    \/ \E w \in Workers : publish_begin(w)
    \/ \E w \in Workers : invoke_callback(w)
    \/ \E w \in Workers : publish_end(w)
    \/ \E w \in Workers : read_io_counters(w)
    \/ \E w \in Workers : sleep_done(w)

RegistrySpec == InitRegistry /\ [][NextRegistry]_vars


\* ------------------------------------------------------- the I/O rates
\* time.time() (lines 383, 388): the clock of the host moves on.
time_passes ==
    /\ host.time < MaxTime
    /\ host' = [host EXCEPT !.time = @ + 1]
    /\ UNCHANGED <<config, locals, failing, reading, registry, publishing, resource_ops,
                   monitoring_thread, monitoring_lock, stop_monitoring_flag, metrics_store,
                   threads, clock, callers, lastCtl, appended>>

\* The counters of one device as psutil reports them after an I/O of the
\* host: a device not reported so far appears with its counter at 0, the
\* counter of a reported device advances.
AfterIo(counters, d) ==
    [x \in DOMAIN counters \cup {d} |->
        IF x \in DOMAIN counters
        THEN (IF x = d THEN counters[x] + 1 ELSE counters[x])
        ELSE 0]

\* An I/O on disk d, seen by psutil.disk_io_counters (lines 410, 577).
disk_io(d) ==
    /\ d \in DOMAIN host.disk_io_counters => host.disk_io_counters[d] < MaxCounter
    /\ host' = [host EXCEPT !.disk_io_counters = AfterIo(@, d)]
    /\ UNCHANGED <<config, locals, failing, reading, registry, publishing, resource_ops,
                   monitoring_thread, monitoring_lock, stop_monitoring_flag, metrics_store,
                   threads, clock, callers, lastCtl, appended>>

\* The disk series of a host whose clock and disk counters move while the
\* loop runs; the disk is reported from the start or appears later.  (The
\* network series goes through the same CollectIoMetrics.)
InitRate ==
    /\ monitoring_enabled = TRUE
    /\ monitoring_interval = HistorySeconds \div 2
    /\ config_metrics = {"disk"}
    /\ Constructed
    /\ host \in {QuietHost, [QuietHost EXCEPT !.disk_io_counters = <<>>]}
    /\ failing = {}
    /\ reading = QuietReading

NextRate ==
    \/ start_monitoring(1)
    \/ stop_monitoring(1)
    \/ stop_join_exited(1)
    \/ stop_join_timeout(1)
    \/ time_passes
    \/ \E d \in Disks : disk_io(d)
    \/ \E w \in Workers : loop_enter(w)
    \/ \E w \in Workers : worker_exit(w)
    \/ \E w \in Workers : tick_begin(w)
    \/ \E w \in Workers : collect_metrics(w)
    \/ \E w \in Workers : add_metrics_append(w)
    \/ \E w \in Workers : add_metrics_trim(w)
    \/ \E w \in Workers : trigger_callbacks(w)
    \/ \E w \in Workers : sleep_done(w)

RateSpec == InitRate /\ [][NextRate]_vars

\* ------------------------------------------------ the two layers of the process
\* monitoring_resources.py:85-152: a metrics resource reads its count from
\* the instance of the resource layer, under that instance's lock.
ResourceReadMetrics(cat, count) ==
    IF resource_ops.metrics_store[cat] # <<>>
    THEN PySliceFrom(resource_ops.metrics_store[cat], -count)
    ELSE <<>>

resource_get_metrics(c, cat, count) ==
    /\ callers[c].pc = "idle"
    /\ resource_ops.monitoring_lock = None
    /\ resource_ops' = [resource_ops EXCEPT !.monitoring_lock = c]
    /\ callers' = [callers EXCEPT ![c] =
            [pc |-> "resource_return", cat |-> cat, count |-> count,
             ret |-> ResourceReadMetrics(cat, count)]]
    /\ UNCHANGED <<config, host, locals, failing, reading, registry, publishing, monitoring_thread,
                   monitoring_lock, stop_monitoring_flag, metrics_store, threads, clock,
                   lastCtl, appended>>

resource_return(c) ==
    /\ callers[c].pc = "resource_return"
    /\ resource_ops' = [resource_ops EXCEPT !.monitoring_lock = None]
    /\ callers' = [callers EXCEPT ![c] = IdleCaller]
    /\ UNCHANGED <<config, host, locals, failing, reading, registry, publishing, monitoring_thread,
                   monitoring_lock, stop_monitoring_flag, metrics_store, threads, clock,
                   lastCtl, appended>>

\* monitoring_resources.py:47-50: the status resource calls
\* get_monitoring_status() of the instance of the resource layer, which takes
\* that instance's lock (monitoring.py:136) and then waits for it in
\* is_monitoring_running (line 127): the lock is never free again.
resource_get_monitoring_status(c) ==
    /\ callers[c].pc = "idle"
    /\ resource_ops.monitoring_lock = None
    /\ resource_ops' = [resource_ops EXCEPT !.monitoring_lock = c]
    /\ callers' = [callers EXCEPT ![c].pc = "resource_status_running"]
    /\ UNCHANGED <<config, host, locals, failing, reading, registry, publishing, monitoring_thread,
                   monitoring_lock, stop_monitoring_flag, metrics_store, threads, clock,
                   lastCtl, appended>>

\* monitoring.py:155 on the instance of the resource layer.
ResourcePrevSystemMetrics ==
    IF resource_ops.metrics_store["system"] # <<>>
    THEN <<resource_ops.metrics_store["system"][Len(resource_ops.metrics_store["system"])]>>
    ELSE <<>>

\* monitoring.py:150-160 on the instance of the resource layer.
ResourceGetSystemStatus(now) ==
    CalculateSystemStatus(CollectSystemMetrics(now), ResourcePrevSystemMetrics, now)

\* monitoring_resources.py:61-64: the system resource; no lock.
resource_get_system_status(c) ==
    /\ callers[c].pc = "idle"
    /\ callers' = [callers EXCEPT ![c] =
            [@ EXCEPT !.pc = "system_status_return", !.ret = ResourceGetSystemStatus(clock)]]
    /\ UNCHANGED <<config, environment, locals, monitoring_thread, monitoring_lock,
                   stop_monitoring_flag, metrics_store, threads, clock, lastCtl, appended>>

\* monitoring_resources.py:75-78: the health resource; check_system_health
\* of the instance of the resource layer begins with its get_system_status().
resource_check_system_health(c) ==
    /\ callers[c].pc = "idle"
    /\ callers' = [callers EXCEPT ![c] =
            [@ EXCEPT !.pc = "resource_health_status", !.ret = ResourceGetSystemStatus(clock)]]
    /\ UNCHANGED <<config, environment, locals, monitoring_thread, monitoring_lock,
                   stop_monitoring_flag, metrics_store, threads, clock, lastCtl, appended>>

\* monitoring.py:258 on the instance of the resource layer: get_system_metrics(60)
\* waits for that instance's lock, takes it and reads.
resource_check_system_health_metrics(c) ==
    /\ callers[c].pc = "resource_health_status"
    /\ resource_ops.monitoring_lock = None
    /\ resource_ops' = [resource_ops EXCEPT !.monitoring_lock = c]
    /\ callers' = [callers EXCEPT ![c] =
            [@ EXCEPT !.pc = "resource_health_metrics",
                      !.ret = [system_status |-> callers[c].ret,
                               system_metrics |-> ResourceReadMetrics("system", 60)]]]
    /\ UNCHANGED <<config, host, locals, failing, reading, registry, publishing, monitoring_thread,
                   monitoring_lock, stop_monitoring_flag, metrics_store, threads, clock,
                   lastCtl, appended>>

\* monitoring.py:233 on the instance of the resource layer: its lock is
\* given back.
resource_check_system_health_release(c) ==
    /\ callers[c].pc = "resource_health_metrics"
    /\ resource_ops' = [resource_ops EXCEPT !.monitoring_lock = None]
    /\ callers' = [callers EXCEPT ![c].pc = "resource_health_evaluate"]
    /\ UNCHANGED <<config, host, locals, failing, reading, registry, publishing, monitoring_thread,
                   monitoring_lock, stop_monitoring_flag, metrics_store, threads, clock,
                   lastCtl, appended>>

\* monitoring.py:260-374 on the instance of the resource layer.
resource_check_system_health_evaluate(c) ==
    /\ callers[c].pc = "resource_health_evaluate"
    /\ callers' = [callers EXCEPT ![c] =
            [@ EXCEPT !.pc = "health_return",
                      !.ret = CheckSystemHealth(callers[c].ret.system_status,
                                                callers[c].ret.system_metrics, clock)]]
    /\ UNCHANGED <<config, environment, locals, monitoring_thread, monitoring_lock,
                   stop_monitoring_flag, metrics_store, threads, clock, lastCtl, appended>>

\* monitoring_tools.py:35-36: the thread the start_monitoring() call of
\* register_monitoring_tools creates.
FirstWorker == CHOOSE x \in Workers : \A y \in Workers : x <= y

\* The server process when its first tool or resource can be called:
\* register_monitoring_tools has built the instance of the tool layer
\* (monitoring_tools.py:32) and, when the configuration enables monitoring,
\* has called its start_monitoring() (lines 35-36);
\* MonitoringResources.__init__ has built the instance of the resource layer,
\* which nothing starts.
InitProcess ==
    /\ monitoring_enabled \in BOOLEAN
    /\ monitoring_interval = HistorySeconds \div 2
    /\ config_metrics = {"cpu"}
    /\ monitoring_thread = IF monitoring_enabled THEN FirstWorker ELSE None
    /\ monitoring_lock = None
    /\ stop_monitoring_flag = FALSE
    /\ metrics_store = [c \in Categories |-> <<>>]
    /\ threads = [w \in Workers |->
            IF monitoring_enabled /\ w = FirstWorker THEN StartedThread ELSE NewThread]
    /\ clock = 0
    /\ callers = [c \in Callers |-> IdleCaller]
    /\ lastCtl = IF monitoring_enabled
                 THEN [op |-> "start", ret |-> TRUE, running |-> FALSE]
                 ELSE [op |-> "none", ret |-> FALSE, running |-> FALSE]
    /\ appended = [c \in Categories |-> <<>>]
    /\ callbacks = [e \in EventTypes |-> None]
    /\ lists = <<>>
    /\ registrations = [e \in EventTypes |-> <<>>]
    /\ publishing = [w \in Workers |-> NotPublishing]
    /\ resource_ops = ConstructedOps
    /\ loop = [w \in Workers |-> LoopLocals(0)]
    /\ ticked = <<>>
    /\ host = QuietHost
    /\ failing = {}
    /\ reading = QuietReading

\* The tools call the instance of the tool layer (monitoring_tools.py:48-213;
\* monitor_analyze_system_performance, lines 220-241, is get_system_status
\* followed by three get_*_metrics calls), the resources the instance of the
\* resource layer.  No tool and no resource calls is_monitoring_running
\* itself.
NextProcess ==
    \/ \E c \in Callers : start_monitoring(c)
    \/ \E c \in Callers : stop_monitoring(c)
    \/ \E c \in Callers : stop_join_exited(c)
    \/ \E c \in Callers : stop_join_timeout(c)
    \/ \E c \in Callers : get_monitoring_status(c)
    \/ \E c \in Callers, m \in Categories, n \in Counts : get_metrics(c, m, n)
    \/ \E c \in Callers : query_return(c)
    \/ \E c \in Callers : get_system_status(c)
    \/ \E c \in Callers : check_system_health(c)
    \/ \E c \in Callers : check_system_health_metrics(c)
    \/ \E c \in Callers : check_system_health_release(c)
    \/ \E c \in Callers : check_system_health_evaluate(c)
    \/ \E c \in Callers : call_return(c)
    \/ \E c \in Callers : resource_get_monitoring_status(c)
    \/ \E c \in Callers, m \in Categories, n \in Counts : resource_get_metrics(c, m, n)
    \/ \E c \in Callers : resource_return(c)
    \/ \E c \in Callers : resource_get_system_status(c)
    \/ \E c \in Callers : resource_check_system_health(c)
    \/ \E c \in Callers : resource_check_system_health_metrics(c)
    \/ \E c \in Callers : resource_check_system_health_release(c)
    \/ \E c \in Callers : resource_check_system_health_evaluate(c)
    \/ \E w \in Workers : loop_enter(w)
    \/ \E w \in Workers : worker_exit(w)
    \/ \E w \in Workers : tick_begin(w)
    \/ \E w \in Workers : collect_metrics(w)
    \/ \E w \in Workers : add_metrics_append(w)
    \/ \E w \in Workers : add_metrics_trim(w)
    \/ \E w \in Workers : trigger_callbacks(w)
    \/ \E w \in Workers : sleep_done(w)

ProcessSpec == InitProcess /\ [][NextProcess]_vars

\* ------------------------------------------------------------ specification
Next ==
    \/ \E c \in Callers : start_monitoring(c)
    \/ \E c \in Callers : stop_monitoring(c)
    \/ \E c \in Callers : stop_join_exited(c)
    \/ \E c \in Callers : stop_join_timeout(c)
    \/ \E c \in Callers : get_monitoring_status(c)
    \/ \E c \in Callers : is_monitoring_running(c)
    \/ \E c \in Callers, m \in Categories, n \in Counts : get_metrics(c, m, n)
    \/ \E c \in Callers : query_return(c)
    \/ \E w \in Workers : loop_enter(w)
    \/ \E w \in Workers : worker_exit(w)
    \/ \E w \in Workers : tick_begin(w)
    \/ \E w \in Workers : collect_metrics(w)
    \/ \E w \in Workers : add_metrics_append(w)
    \/ \E w \in Workers : add_metrics_trim(w)
    \/ \E w \in Workers : trigger_callbacks(w)
    \/ \E w \in Workers : sleep_done(w)

Spec == Init /\ [][Next]_vars

\* --------------------------------------- the queries in every lifecycle state
\* A reading with a critical cpu and mount, a warning memory and load.
HotReading ==
    [cpu |-> CpuCritical + 1, mem |-> MemoryWarning + 1,
     disks |-> <<DiskCritical + 1>>, load |-> LoadWarning + 1]

InitQuery ==
    /\ monitoring_enabled = TRUE
    /\ monitoring_interval = HistorySeconds \div 2
    /\ config_metrics = {"cpu"}
    /\ Constructed
    /\ host = QuietHost
    /\ failing = {}
    /\ reading = HotReading

\* The two callers whose snapshots and reports are compared.
Askers == {1, 2}

\* Caller 1 starts and stops; both callers ask for snapshots and reports.
NextQuery ==
    \/ start_monitoring(1)
    \/ stop_monitoring(1)
    \/ stop_join_exited(1)
    \/ stop_join_timeout(1)
    \/ \E w \in Workers : loop_enter(w)
    \/ \E w \in Workers : worker_exit(w)
    \/ \E w \in Workers : tick_begin(w)
    \/ \E w \in Workers : collect_metrics(w)
    \/ \E w \in Workers : add_metrics_append(w)
    \/ \E w \in Workers : add_metrics_trim(w)
    \/ \E w \in Workers : trigger_callbacks(w)
    \/ \E w \in Workers : sleep_done(w)
    \/ \E c \in Askers : get_system_status(c)
    \/ \E c \in Askers : check_system_health(c)
    \/ \E c \in Askers : check_system_health_metrics(c)
    \/ \E c \in Askers : check_system_health_release(c)
    \/ \E c \in Askers : check_system_health_evaluate(c)
    \/ \E c \in Askers : call_return(c)

QuerySpec == InitQuery /\ [][NextQuery]_vars

\* ------------------------------------------------ the instance under fairness
InitFair ==
    /\ monitoring_enabled = TRUE
    /\ monitoring_interval = HistorySeconds \div 2
    /\ config_metrics = {"cpu"}
    /\ Constructed
    /\ host = QuietHost
    /\ failing = {}
    /\ reading = QuietReading

\* A started thread is scheduled; its collector calls, its handler calls and
\* its sleeps return; it gets the lock when the lock is free again and again.
WorkerFairness ==
    \A w \in Workers :
        /\ WF_vars(loop_enter(w))
        /\ WF_vars(worker_exit(w))
        /\ WF_vars(tick_begin(w))
        /\ WF_vars(collect_metrics(w))
        /\ SF_vars(add_metrics_append(w))
        /\ WF_vars(add_metrics_trim(w))
        /\ WF_vars(trigger_callbacks(w))
        /\ WF_vars(sleep_done(w))

\* A caller inside a with-block leaves it; join() returns when the thread
\* has exited or after its 5 seconds.
CallerFairness ==
    \A c \in Callers :
        /\ WF_vars(query_return(c))
        /\ WF_vars(stop_join_exited(c))
        /\ WF_vars(stop_join_timeout(c))

FairSpec == InitFair /\ [][Next]_vars /\ WorkerFairness /\ CallerFairness



\* ------------------------------------------------------ the status scale
\* The values around the three limits of _calculate_system_status.
StatusValues ==
    {StatusWarning, StatusWarning + 1} \cup Around(StatusDegraded, StatusCritical)

StatusReadings ==
    [cpu : StatusValues,
     mem : StatusValues,
     disks : UNION {[1 .. n -> StatusValues] : n \in 0 .. MaxMounts},
     load : Around(LoadWarning, LoadCritical)]

\* The snapshot and the health report on every reading of the host, with
\* the system summary in or out of order.
InitStatus ==
    /\ monitoring_enabled = TRUE
    /\ monitoring_interval = HistorySeconds
    /\ config_metrics = {"cpu"}
    /\ Constructed
    /\ host = QuietHost
    /\ failing \in {{}, {"boot_time"}, {"cpu_percent"}}
    /\ reading \in StatusReadings

NextStatus ==
    \/ get_system_status(1)
    \/ check_system_health(1)
    \/ check_system_health_metrics(1)
    \/ check_system_health_release(1)
    \/ check_system_health_evaluate(1)
    \/ call_return(1)

StatusSpec == InitStatus /\ [][NextStatus]_vars

\* ------------------------------------------------- handlers that query
\* The loop with a handler that reads the series of its event, next to
\* callers of the status calls.
InitHandler ==
    /\ monitoring_enabled = TRUE
    /\ monitoring_interval = HistorySeconds \div 2
    /\ config_metrics = {"cpu"}
    /\ Constructed
    /\ host = QuietHost
    /\ failing = {}
    /\ reading = QuietReading

NextHandler ==
    \/ start_monitoring(1)
    \/ \E c \in Callers, e \in {"cpu", "system", "other"} : register_callback(c, e, QueryingHandler)
    \/ \E c \in Callers : register_store(c)
    \/ \E c \in Callers : register_append(c)
    \/ \E c \in Callers : get_monitoring_status(c)
    \/ \E c \in Callers : is_monitoring_running(c)
    \/ \E c \in Callers : query_return(c)
    \/ \E w \in Workers : loop_enter(w)
    \/ \E w \in Workers : tick_begin(w)
    \/ \E w \in Workers : collect_metrics(w)
    \/ \E w \in Workers : add_metrics_append(w)
    \/ \E w \in Workers : add_metrics_trim(w)
    \/ \E w \in Workers : publish_begin(w)
    \/ \E w \in Workers : invoke_callback(w)
    \/ \E w \in Workers : handler_get_metrics(w)
    \/ \E w \in Workers : handler_return(w)
    \/ \E w \in Workers : publish_end(w)
    \/ \E w \in Workers : sleep_done(w)

\* A handler waiting for the lock gets it when it is free again and again;
\* a caller leaves the with-block it is in.
HandlerFairness ==
    /\ \A w \in Workers :
          /\ WF_vars(loop_enter(w))
          /\ WF_vars(tick_begin(w))
          /\ WF_vars(collect_metrics(w))
          /\ SF_vars(add_metrics_append(w))
          /\ WF_vars(add_metrics_trim(w))
          /\ WF_vars(publish_begin(w))
          /\ WF_vars(invoke_callback(w))
          /\ SF_vars(handler_get_metrics(w))
          /\ WF_vars(handler_return(w))
          /\ WF_vars(publish_end(w))
          /\ WF_vars(sleep_done(w))
    /\ \A c \in Callers :
          /\ WF_vars(query_return(c))
          /\ WF_vars(register_store(c))
          /\ WF_vars(register_append(c))

HandlerSpec == InitHandler /\ [][NextHandler]_vars /\ HandlerFairness


\* ================================================================== claims
\* A worker is inside _add_metrics, between its append and its trim.
InAddMetrics == monitoring_lock \in Workers

StopReturns(c) == stop_join_exited(c) \/ stop_join_timeout(c)

\* ---------------------------------------------------------------------- C1
\* C1: a get_monitoring_status call always returns: whenever a caller is
\* inside it, at the call of is_monitoring_running, that call can take the
\* monitoring lock (and then build the record and free the lock).
C1_StatusCanProceed ==
    \A c \in Callers :
        callers[c].pc = "status_running" => ENABLED is_monitoring_running(c)

\* ---------------------------------------------------------------------- C2
\* C2: for every accepted interval (capacity 0 included) and every category,
\* the series is never longer than the capacity while no _add_metrics call
\* holds the lock.
C2_LengthAtMostCapacity ==
    ~InAddMetrics => \A m \in Categories : Len(metrics_store[m]) <= max_metrics

\* ---------------------------------------------------------------------- C3
\* C3: with capacity C >= 1, after N appends to a category the stored series
\* is exactly the last min(N, C) appended samples, in insertion order.
C3_StoreIsLastSamples ==
    (max_metrics >= 1 /\ ~InAddMetrics) =>
        \A m \in Categories :
            metrics_store[m] =
                MostRecent(appended[m], Min(Len(appended[m]), max_metrics))

\* C3 witness: capacity 2, three appends to "cpu", the oldest one evicted.
C3_Witness ==
    /\ max_metrics = 2
    /\ ~InAddMetrics
    /\ Len(appended["cpu"]) = 3
    /\ Len(metrics_store["cpu"]) = 2

\* ---------------------------------------------------------------------- C4
\* C4: for every category and count >= 0, get_*_metrics(count) returns
\* exactly the min(count, len(series)) most recent samples, oldest first.
C4_ReadReturnsMostRecent ==
    \A c \in Callers :
        callers[c].pc = "metrics_return" =>
            LET series == metrics_store[callers[c].cat]
            IN  callers[c].ret = MostRecent(series, Min(callers[c].count, Len(series)))

\* ---------------------------------------------------------------------- C5
\* C5: at most one worker thread is alive at any time, and no step clears
\* the stop flag while a worker is alive.
C5_SingleWorker ==
    [][ /\ Cardinality(AliveWorkers') <= 1
        /\ (stop_monitoring_flag /\ ~stop_monitoring_flag') => AliveWorkers = {}
      ]_vars

\* C5 witness: a stop timed out, the old worker is alive with the flag set,
\* and a start call made in that state has returned.
C5_Witness ==
    /\ lastCtl.op = "start"
    /\ ~lastCtl.ret
    /\ stop_monitoring_flag
    /\ WorkerRunning

\* ---------------------------------------------------------------------- C6
\* C6: on an enabled instance with no worker alive start_monitoring returns
\* true; a start_monitoring call that directly follows one that returned true
\* returns false and leaves the handle, the worker and the stop flag as they are.
C6_StartTwice ==
    [][ \A c \in Callers : start_monitoring(c) =>
          /\ (monitoring_enabled /\ AliveWorkers = {}) => lastCtl'.ret
          /\ (lastCtl.op = "start" /\ lastCtl.ret) =>
                /\ ~lastCtl'.ret
                /\ UNCHANGED <<monitoring_thread, threads, stop_monitoring_flag>>
      ]_vars

\* C6 witness: a start call returned false while the worker of the previous
\* start is running and the flag is still clear (no stop came between).
C6_Witness ==
    /\ lastCtl.op = "start"
    /\ ~lastCtl.ret
    /\ lastCtl.running
    /\ ~stop_monitoring_flag
    /\ WorkerRunning

\* ---------------------------------------------------------------------- C7
\* C7: a stop_monitoring call made while a worker is running (in any phase
\* of its tick) returns true, and the stop_monitoring call that directly
\* follows it returns false.
C7_StopTwice ==
    [][ \A c \in Callers :
          /\ StopReturns(c) => lastCtl'.ret
          /\ (stop_monitoring(c) /\ lastCtl.op = "stop" /\ lastCtl.ret) =>
                (lastCtl'.op = "stop" /\ ~lastCtl'.ret)
      ]_vars

\* ---------------------------------------------------------------------- C8
\* C8: on an instance whose configuration disables monitoring every
\* start_monitoring call returns false, no worker is ever created, the handle
\* and the stop flag keep their initial values and no sample is ever appended.
C8_DisabledNeverStarts ==
    ~monitoring_enabled =>
        /\ monitoring_thread = None
        /\ ~stop_monitoring_flag
        /\ FreshThreads = Workers
        /\ \A m \in Categories : metrics_store[m] = <<>> /\ appended[m] = <<>>
        /\ lastCtl.op = "start" => ~lastCtl.ret

\* C8 witness: a start call has returned on a disabled instance.
C8_Witness == ~monitoring_enabled /\ lastCtl.op = "start"

\* ---------------------------------------------------------------------- C9
\* C9: stop_monitoring called while no worker is alive returns false, does
\* not set the stop flag and leaves the handle, the lock and the store as
\* they are; the start_monitoring call that follows it on an enabled instance
\* returns true.
C9_StopWhenIdle ==
    [][ \A c \in Callers :
          /\ (stop_monitoring(c) /\ AliveWorkers = {}) =>
                /\ lastCtl' = [op |-> "stop", ret |-> FALSE, running |-> FALSE]
                /\ UNCHANGED <<stop_monitoring_flag, monitoring_thread, monitoring_lock,
                               metrics_store, threads>>
          /\ (start_monitoring(c) /\ lastCtl.op = "stop" /\ ~lastCtl.running
                /\ monitoring_enabled) => lastCtl'.ret
      ]_vars

\* C9 witness: the worker exited by itself after a timed-out stop (the handle
\* still names the dead thread, the flag is set) and a stop call made in that
\* state has returned false.
C9_Witness ==
    /\ lastCtl = [op |-> "stop", ret |-> FALSE, running |-> FALSE]
    /\ monitoring_thread # None
    /\ stop_monitoring_flag

\* --------------------------------------------------------------------- C10
\* C10: stop_monitoring returns true only when the worker has exited, and it
\* then clears the handle, so is_monitoring_running is false; when the grace
\* period ends with the worker alive it returns false and leaves the worker
\* alive, the stop flag set and the handle in place.
C10_StopResult ==
    [][ \A c \in Callers :
          /\ stop_join_timeout(c) => ~lastCtl'.ret
          /\ StopReturns(c) =>
                IF lastCtl'.ret
                THEN /\ ~IsAlive(monitoring_thread)
                     /\ monitoring_thread' = None
                     /\ ~WorkerRunning'
                ELSE /\ IsAlive(monitoring_thread)
                     /\ monitoring_thread' = monitoring_thread
                     /\ WorkerRunning'
                     /\ stop_monitoring_flag'
          /\ (stop_monitoring(c) /\ lastCtl' # lastCtl) => ~lastCtl'.ret
      ]_vars

\* C10 witness: a stop call timed out and returned false; the worker it
\* waited for is still alive, the flag set, the handle in place.
C10_Witness ==
    /\ lastCtl = [op |-> "stop", ret |-> FALSE, running |-> TRUE]
    /\ WorkerRunning
    /\ stop_monitoring_flag

\* ------------------------------------------------- claims on the health report
HealthReports == {callers[c].ret : c \in {k \in Callers : callers[k].pc = "health_return"}}

\* The values a report checks, in the order of the claim: cpu, memory, the
\* disks in mount order, load (in tenths), each with its two bounds.
CheckedValues(s) ==
    <<[component |-> "cpu", mount |-> 0, v |-> s.cpu.usage_percent, low |-> 75, high |-> 90],
      [component |-> "memory", mount |-> 0, v |-> s.memory.percent, low |-> 75, high |-> 90]>>
    \o [i \in 1 .. Len(s.disks) |->
          [component |-> "disk", mount |-> i, v |-> s.disks[i], low |-> 75, high |-> 90]]
    \o <<[component |-> "load", mount |-> 0, v |-> s.cpu.load_average, low |-> 15, high |-> 30]>>

ExpectedIssues(s) ==
    LET Triggered(x) == x.v > x.low
        hot == SelectSeq(CheckedValues(s), Triggered)
    IN  [i \in 1 .. Len(hot) |->
            [component |-> hot[i].component,
             severity |-> IF hot[i].v > hot[i].high THEN "critical" ELSE "warning",
             mount |-> hot[i].mount,
             value |-> hot[i].v]]

\* C15: every report holds, for each checked value of its snapshot, exactly
\* one issue when v > 75 and none when v <= 75, critical when v > 90 and
\* warning when 75 < v <= 90 (1.5 and 3.0 for the load), in the order cpu,
\* memory, disks in mount order, load.
C15_OneIssuePerValue ==
    \A r \in HealthReports : r.issues = ExpectedIssues(r.system_status)

\* A report on cpu exactly 90 (a warning), memory exactly 75 (no issue) and a
\* critical last mount.
C15_Witness ==
    \E r \in HealthReports :
        /\ r.system_status.cpu.usage_percent = 90
        /\ r.system_status.memory.percent = 75
        /\ Len(r.system_status.disks) = MaxMounts
        /\ r.system_status.disks[MaxMounts] > 90
        /\ r.issues[1].severity = "warning"
        /\ r.issues[Len(r.issues)].component = "disk"

Severities(r) == {r.issues[i].severity : i \in 1 .. Len(r.issues)}

\* C16: the status of a report is the highest severity among its issues:
\* Critical iff some issue is critical, Warning iff none is critical and some
\* is a warning, Healthy iff there is no issue.
C16_StatusIsMaxSeverity ==
    \A r \in HealthReports :
        /\ r.status = "Critical" <=> "critical" \in Severities(r)
        /\ r.status = "Warning" <=> ("critical" \notin Severities(r) /\ "warning" \in Severities(r))
        /\ r.status = "Healthy" <=> r.issues = <<>>

\* A warning found after a critical: the status stays Critical.
C16_Witness ==
    \E r \in HealthReports :
        /\ Len(r.issues) >= 2
        /\ r.issues[1].severity = "critical"
        /\ r.issues[Len(r.issues)].severity = "warning"
        /\ r.status = "Critical"

\* The recommendation of each component, in the order of the claim.
ComponentRecommendation ==
    <<[component |-> "cpu", text |-> "Identify and terminate CPU-intensive processes"],
      [component |-> "memory", text |-> "Check for memory leaks or increase system memory"],
      [component |-> "disk", text |-> "Free up disk space by removing unnecessary files"],
      [component |-> "load", text |-> "Reduce system load by terminating unnecessary processes"]>>

Recommended(r, k) ==
    \E i \in 1 .. Len(r.recommendations) : r.recommendations[i] = ComponentRecommendation[k].text

IssuesOf(r, k) ==
    {i \in 1 .. Len(r.issues) : r.issues[i].component = ComponentRecommendation[k].component}

\* At most once per component, and in the order cpu, memory, disk, load.
RecommendationsInOrder(r) ==
    /\ \A i \in 1 .. Len(r.recommendations) :
          \E k \in 1 .. 4 : r.recommendations[i] = ComponentRecommendation[k].text
    /\ \A i, j \in 1 .. Len(r.recommendations) :
          i < j => \E k, l \in 1 .. 4 :
                      /\ k < l
                      /\ r.recommendations[i] = ComponentRecommendation[k].text
                      /\ r.recommendations[j] = ComponentRecommendation[l].text

\* C17 as stated: a report holds the recommendation of a component iff it
\* holds at least one issue of that component.
C17_RecommendedIffIssue ==
    \A r \in HealthReports :
        /\ \A k \in 1 .. 4 : Recommended(r, k) <=> IssuesOf(r, k) # {}
        /\ RecommendationsInOrder(r)

\* C17 amended: a report holds the recommendation of a component iff it
\* holds at least one critical issue of that component; the recommendations
\* of different components come together, once per component, in the order
\* cpu, memory, disk, load.
C17_RecommendedIffCriticalIssue ==
    \A r \in HealthReports :
        /\ \A k \in 1 .. 4 :
              Recommended(r, k) <=> \E i \in IssuesOf(r, k) : r.issues[i].severity = "critical"
        /\ RecommendationsInOrder(r)

\* Two critical mounts and a critical cpu give two recommendations, a
\* warning memory gives none.
C17_Witness ==
    \E r \in HealthReports :
        /\ Cardinality({i \in IssuesOf(r, 3) : r.issues[i].severity = "critical"}) = 2
        /\ IssuesOf(r, 2) # {}
        /\ r.recommendations = <<ComponentRecommendation[1].text, ComponentRecommendation[3].text>>

\* The values of the snapshot a report was evaluated on.
SnapshotValues(r) ==
    <<r.system_status.cpu.usage_percent, r.system_status.memory.percent,
      r.system_status.disks, r.system_status.cpu.load_average>>

\* C18: two reports evaluated on the same snapshot values hold the same
\* status, the same issues and the same recommendations, whatever the system
\* history, the lifecycle state and the time of the two calls.
C18_SameSnapshotSameReport ==
    \A r1, r2 \in HealthReports :
        SnapshotValues(r1) = SnapshotValues(r2)
        => /\ r1.status = r2.status
           /\ r1.issues = r2.issues
           /\ r1.recommendations = r2.recommendations

\* Two reports in hand: one asked at time 0 on a never started instance with
\* an empty history, one asked later, the worker running and the system
\* series holding samples.
C18_Witness ==
    \E r1, r2 \in HealthReports :
        /\ r1.timestamp = 0
        /\ r2.timestamp = clock
        /\ clock >= 2
        /\ metrics_store["system"] # <<>>
        /\ WorkerRunning
        /\ r1.issues # <<>>

\* ------------------------------------------------------- claims on liveness
\* Every holder of the monitoring lock releases it.
LockReleased == []<>(monitoring_lock = None)

\* is_monitoring_running() turns true only in a successful start_monitoring.
RunningOnlyByStart ==
    [][(~WorkerRunning /\ WorkerRunning')
          => /\ lastCtl' = [op |-> "start", ret |-> TRUE, running |-> AliveWorkers # {}]
             /\ stop_monitoring_flag' = FALSE
             /\ monitoring_thread' # monitoring_thread]_vars

\* C11: when every lock holder releases the lock, a set stop flag leads to
\* the worker having exited and is_monitoring_running() being false, also
\* after a stop call that timed out; and is_monitoring_running() becomes true
\* again only by a successful start.
C11_StopLeadsToExit ==
    /\ LockReleased => (stop_monitoring_flag ~> (AliveWorkers = {} /\ ~WorkerRunning))
    /\ RunningOnlyByStart

\* The stop call timed out and returned false, the handle was kept, and the
\* worker has exited since.
C11_Witness ==
    /\ lastCtl = [op |-> "stop", ret |-> FALSE, running |-> TRUE]
    /\ stop_monitoring_flag
    /\ monitoring_thread # None
    /\ ~WorkerRunning
    /\ AliveWorkers = {}

\* C20 as stated, for the queries that take the lock: whoever holds the
\* monitoring lock releases it, so that a waiting get_*_metrics or
\* check_system_health call gets in.
C20_QueriesGetTheLock == (monitoring_lock # None) ~> (monitoring_lock = None)

\* ------------------------------------------------------- claims on the tick
\* The worker has reached the sleep that ends the tick it began.
TickOver(w) == threads[w].pc = "sleep"

HasSampleOf(m, t) == \E i \in 1 .. Len(appended[m]) : appended[m][i].t = t

\* The category whose collector reads the OS source.
SourceCategory(src) ==
    IF src = "cpu_percent" THEN "cpu"
    ELSE IF src = "disk_io_counters" THEN "disk"
    ELSE IF src \in {"net_io_counters", "net_connections"} THEN "network"
    ELSE "system"

\* C12 as stated: at the end of a tick in which an OS source failed, the
\* category of the source holds an error-marked sample of the tick and every
\* other enabled category and "system" hold a sample of the tick.
C12_FailureIsolated ==
    \A w \in Workers : \A src \in failing :
        TickOver(w)
        => /\ \E i \in 1 .. Len(appended[SourceCategory(src)]) :
                 appended[SourceCategory(src)][i] = Sample(threads[w].tick, TRUE)
           /\ \A i \in 1 .. Len(CatOrder) :
                 Collected(i) => HasSampleOf(CatOrder[i], threads[w].tick)

\* A step in which the read of line 410 / 419 raises.
TickBodyRaises(w) ==
    /\ threads[w].pc = "counters"
    /\ CounterSource(w) \in failing
    /\ threads'[w] # threads[w]

\* C13: a worker dies only with the stop flag set; when the tick body
\* raises, the store keeps what the tick appended, the worker goes to sleep,
\* and from the sleep it returns to the test at the top of the loop, where a
\* clear flag lets another tick begin.
C13_LoopSurvivesExceptions ==
    /\ [][\A w \in Workers :
            /\ (threads[w].pc # "dead" /\ threads'[w].pc = "dead") => stop_monitoring_flag
            /\ TickBodyRaises(w)
                  => /\ threads'[w].pc = "sleep"
                     /\ metrics_store' = metrics_store
                     /\ appended' = appended
            /\ (threads[w].pc = "sleep" /\ threads'[w].pc # "sleep")
                  => threads'[w].pc = "check"]_vars
    /\ [](\A w \in Workers :
            (threads[w].pc = "check" /\ ~stop_monitoring_flag /\ clock < MaxTicks)
            => ENABLED tick_begin(w))

\* The counter read failed in the first tick and the worker ran a second
\* one: two error-marked disk samples, the flag clear, the worker alive.
C13_Witness ==
    /\ failing = {"disk_io_counters"}
    /\ appended["disk"] = <<Sample(1, TRUE), Sample(2, TRUE)>>
    /\ appended["network"] = <<>>
    /\ ~stop_monitoring_flag
    /\ \E w \in Workers : threads[w].pc = "sleep" /\ threads[w].tick = 2

IsPrefix(s, t) == Len(s) <= Len(t) /\ \A i \in 1 .. Len(s) : s[i] = t[i]

\* The for loop of the _trigger_callbacks call of the worker is exhausted.
PublishOver(w) ==
    /\ threads[w].pc = "publishing"
    /\ publishing[w].next > Len(Iterated(w))

\* C14 as stated: when the loop of a _trigger_callbacks call is exhausted,
\* every handler whose registration for its event returned before the call
\* began has been called once, in registration order, whether or not
\* handlers raised, and no handler of another event has been called; the
\* call ends only with its loop exhausted, and the tick then goes on.
C14_HandlersCalledInOrder ==
    /\ [](\A w \in {x \in Workers : threads[x].pc = "publishing"} :
            /\ IsPrefix(publishing[w].called, Iterated(w))
            /\ Len(publishing[w].called) = publishing[w].next - 1
            /\ PublishOver(w) => IsPrefix(publishing[w].registered, publishing[w].called))
    /\ [][\A w \in Workers :
            (threads[w].pc = "publishing" /\ threads'[w].pc # "publishing")
            => /\ PublishOver(w)
               /\ threads'[w].pc \in {"collect", "counters", "status", "sleep"}
               /\ threads'[w].pc = "sleep" => publishing[w].event = "status"]_vars

\* ------------------------------------------------- claims on the two layers
\* C19 as stated: the series and the running flag the monitoring resources
\* read are the ones of the worker the tool layer started, and a resource
\* read returns what that worker appended.
C19_OneMonitoringState ==
    /\ resource_ops.metrics_store = metrics_store
    /\ (resource_ops.monitoring_thread # None) = WorkerRunning
    /\ \A c \in Callers :
          callers[c].pc = "resource_return"
          => callers[c].ret = ReadMetrics(callers[c].cat, callers[c].count)

\* ---------------------------------------------------------------- rates
IoCategories == {"disk", "network"}

\* The workers whose disk or network collector has just returned a sample
\* that is not an error record.
JustCollected(m) ==
    {w \in Workers : /\ threads[w].pc = "add"
                     /\ CatOrder[threads[w].cat] = m
                     /\ ~threads[w].sample.error}

\* Tick t is the first tick of the run of its thread.
FirstTickOfRun(t) == \A u \in 1 .. (t - 1) : ticked[u].thread # ticked[t].thread

\* The previous counters the collector of category m was handed.
PrevCounters(w, m) ==
    IF m = "disk" THEN loop[w].prev_disk_counters ELSE loop[w].prev_net_counters

\* C21: the disk and the network sample of the first tick of a run (also of
\* a run started after a stop) and of a tick whose elapsed time is not
\* positive have no rate entry; a device has a rate entry only when the
\* elapsed time is positive and a reading of its counter made in an earlier
\* tick of the same run is at hand.
C21_RatesNeedEarlierReading ==
    \A m \in IoCategories : \A w \in JustCollected(m) :
        LET s == threads[w].sample
        IN  /\ FirstTickOfRun(s.t) \/ loop[w].elapsed_time <= 0 => DOMAIN s.io_rates = {}
            /\ \A d \in DOMAIN s.io_rates :
                    /\ loop[w].elapsed_time > 0
                    /\ d \in DOMAIN PrevCounters(w, m)
                    /\ ~FirstTickOfRun(s.t)

\* A restarted loop is in its first tick, the disk reports a counter, the
\* sample has no rate, and the series holds a sample of the stopped loop
\* that has one.
C21_Witness ==
    \E w \in JustCollected("disk") :
        /\ FirstTickOfRun(threads[w].sample.t)
        /\ DOMAIN threads[w].sample.io_counters # {}
        /\ DOMAIN threads[w].sample.io_rates = {}
        /\ \E i \in 1 .. Len(appended["disk"]) :
                /\ ~appended["disk"][i].error
                /\ DOMAIN appended["disk"][i].io_rates # {}
                /\ ticked[appended["disk"][i].t].thread # w

\* C22: for two consecutive disk (network) samples of one run and a device
\* of both, the rate of the later sample times the time between the two
\* ticks is the difference of the counters the two samples record.
C22_RateIsCounterDifference ==
    \A m \in IoCategories :
        LET lst == appended[m]
        IN  \A k \in 2 .. Len(lst) :
                LET a == lst[k - 1]
                    b == lst[k]
                    dt == ticked[b.t].current_time - ticked[a.t].current_time
                IN  (/\ ~a.error /\ ~b.error
                     /\ ticked[a.t].thread = ticked[b.t].thread)
                    => \A d \in DOMAIN b.io_rates \cap DOMAIN a.io_counters :
                           b.io_rates[d].delta * dt
                             = (b.io_counters[d] - a.io_counters[d]) * b.io_rates[d].elapsed

\* ------------------------------------------------------------ cancellation
\* The step appends sample number Len + 1 of category m.
Appends(m) ==
    /\ Len(appended'[m]) = Len(appended[m]) + 1
    /\ SubSeq(appended'[m], 1, Len(appended[m])) = appended[m]

\* C23: while the stop flag is set no tick begins; a worker at the test of
\* the loop leaves the loop; a sample appended while the flag is set is a
\* sample of the tick that was in flight, the only one of its category for
\* that tick: at most one further sample per category.
C23_NoTickAfterStop ==
    [][stop_monitoring_flag =>
          /\ clock' = clock
          /\ \A w \in Workers :
                threads[w].pc = "check" => threads'[w].pc \in {"check", "dead"}
          /\ \A m \in Categories :
                appended'[m] # appended[m] =>
                    /\ Appends(m)
                    /\ appended'[m][Len(appended'[m])].t = clock
                    /\ \A i \in 1 .. Len(appended[m]) : appended[m][i].t # clock]_vars

\* The flag is set, stop_monitoring has given up waiting, and the worker has
\* appended a sample of the tick that was in flight.
C23_Witness ==
    /\ stop_monitoring_flag
    /\ lastCtl.op = "stop" /\ ~lastCtl.ret
    /\ \E w \in Workers : threads[w].pc = "trim" /\ threads[w].tick = clock

\* ------------------------------------------------------- readers and appends
\* The series a caller at position pc has just read: get_*_metrics its
\* category, get_monitoring_status every series, get_system_status (also
\* when check_system_health calls it) the system series, and
\* check_system_health the system series again through get_system_metrics.
SeriesRead(c) ==
    IF callers[c].pc = "metrics_return" THEN {callers[c].cat}
    ELSE IF callers[c].pc = "status_return" THEN Categories
    ELSE IF callers[c].pc \in {"system_status_return", "health_status", "health_metrics"}
    THEN {"system"}
    ELSE {}

\* A worker is between the append and the trim of _add_metrics(m, ...)
\* (lines 448-452).
AppendInProgress(m) ==
    \E w \in Workers : threads[w].pc = "trim" /\ CatOrder[threads[w].cat] = m

\* C24: a caller reads a series (get_*_metrics, get_monitoring_status,
\* get_system_status, check_system_health) only while no worker is between
\* the append to that series and its trim.
C24_ReadersExcludeAppend ==
    [][\A c \in Callers :
          callers'[c].pc # callers[c].pc => \A m \in SeriesRead(c)' : ~AppendInProgress(m)]_vars

\* ------------------------------------------------- handlers and the lock
\* The worker is in a _trigger_callbacks call for a category.
PublishingCategory(w) ==
    /\ threads[w].pc \in {"publishing", "handler_acquire", "handler_release"}
    /\ publishing[w].event \in Categories

\* The worker is inside a handler that calls get_*_metrics for the category
\* of the event: the handler was called and has not returned.
HandlerCalls(w) == threads[w].pc \in {"handler_acquire", "handler_release"}

\* C25: the sample is in the store before its handlers are called, the
\* worker calls every handler without holding the lock (it holds it only
\* inside the get_*_metrics call of a handler), and a handler that calls
\* get_*_metrics for its category returns, with a series that ends with the
\* sample it was handed.
C25_HandlerQueryReturns ==
    /\ [](\A w \in Workers :
            PublishingCategory(w) =>
                /\ monitoring_lock = w <=> threads[w].pc = "handler_release"
                /\ metrics_store[publishing[w].event] # <<>>
                /\ MostRecent(metrics_store[publishing[w].event], 1) = <<threads[w].sample>>
                /\ publishing[w].got # <<>> =>
                       MostRecent(publishing[w].got, 1) = <<threads[w].sample>>
                /\ threads[w].pc = "handler_release" => publishing[w].got # <<>>)
    /\ \A w \in Workers : HandlerCalls(w) ~> ~HandlerCalls(w)

\* ------------------------------------------------------- stop and the lock
\* Caller c is in the join() of stop_monitoring, holding the lock, and the
\* worker it waits for is at the acquire of _add_metrics (line 446).
StopBlocksWorker(c) ==
    /\ callers[c].pc = "stop_join"
    /\ monitoring_lock = c
    /\ IsAlive(monitoring_thread)
    /\ threads[monitoring_thread].pc = "add"

\* C26: stop_monitoring never waits for the exit of a worker that waits
\* for the lock stop_monitoring holds.
C26_StopNeverBlocksWorker == \A c \in Callers : ~StopBlocksWorker(c)

\* ------------------------------------------------------- status snapshots
\* The snapshots callers hold: the values of get_system_status and the
\* system_status entries of the health reports.
Snapshots ==
    {callers[c].ret : c \in {k \in Callers : callers[k].pc = "system_status_return"}}
        \cup {r.system_status : r \in HealthReports}

\* The scale of the claim, as a rank: 3 Critical, 2 Degraded, 1 Warning,
\* 0 Healthy.
LevelOf(v) == IF v > 90 THEN 3 ELSE IF v > 75 THEN 2 ELSE IF v > 60 THEN 1 ELSE 0

StatusRank == [Critical |-> 3, Degraded |-> 2, Warning |-> 1, Healthy |-> 0]

\* The values a snapshot was computed from.
ScaledValues(s) ==
    {s.cpu.usage_percent, s.memory.percent} \cup {s.disks[i] : i \in 1 .. Len(s.disks)}

\* The orderings of a disk list.
Orderings(disks) ==
    {[i \in 1 .. Len(disks) |-> disks[p[i]]] :
        p \in {q \in [1 .. Len(disks) -> 1 .. Len(disks)] :
                  \A i, j \in 1 .. Len(disks) : q[i] = q[j] => i = j}}

\* C27: the status of a snapshot is the highest level any of cpu, memory
\* and the mounts reaches on the scale > 90 Critical, > 75 Degraded, > 60
\* Warning, else Healthy, and it is the same for every order of the mounts.
C27_StatusIsHighestLevel ==
    \A s \in Snapshots :
        /\ \E v \in ScaledValues(s) : StatusRank[s.status] = LevelOf(v)
        /\ \A v \in ScaledValues(s) : StatusRank[s.status] >= LevelOf(v)
        /\ \A disks \in Orderings(s.disks) :
              StatusAfterDisks(
                  StatusAfter(StatusAfter("Healthy", s.cpu.usage_percent), s.memory.percent),
                  disks, 1) = s.status

\* A critical cpu followed by a degraded memory and a mount at warning
\* level before a healthy one: the status stays Critical.
C27_Witness ==
    \E s \in Snapshots :
        /\ s.cpu.usage_percent > 90
        /\ s.memory.percent > 75 /\ s.memory.percent <= 90
        /\ Len(s.disks) = MaxMounts
        /\ s.disks[1] > 60 /\ s.disks[1] <= 75
        /\ s.disks[MaxMounts] <= 60
        /\ s.status = "Critical"

\* C28: a snapshot with status Healthy, and a health report that is Healthy
\* with no issue, come only from a system summary that was collected.
C28_HealthyOnlyWhenCollected ==
    /\ \A s \in Snapshots : s.status = "Healthy" => ~CollectorFails("system")
    /\ \A r \in HealthReports :
          r.status = "Healthy" /\ r.issues = <<>> => ~CollectorFails("system")

\* C29: a Critical snapshot has a Critical report; a Healthy report has a
\* Healthy or Warning snapshot; a Critical report on a snapshot that is not
\* Critical has a load per CPU above 3.0.
C29_HealthAgreesWithSnapshot ==
    \A r \in HealthReports :
        /\ r.system_status.status = "Critical" => r.status = "Critical"
        /\ r.status = "Healthy" => r.system_status.status \in {"Healthy", "Warning"}
        /\ r.status = "Critical" /\ r.system_status.status # "Critical"
              => r.system_status.cpu.load_average > 30

\* A Critical report on a Warning snapshot, and the load above 3.0.
C29_Witness ==
    \E r \in HealthReports :
        /\ r.status = "Critical"
        /\ r.system_status.status = "Warning"
        /\ r.system_status.cpu.load_average > 30

\* ------------------------------------------------------------ stored history
IsSuffix(s, t) == Len(s) <= Len(t) /\ s = SubSeq(t, Len(t) - Len(s) + 1, Len(t))

\* The step is a step of start_monitoring or stop_monitoring: a call
\* returns, or stop_monitoring enters its join().
ControlStep ==
    \/ lastCtl' # lastCtl
    \/ \E c \in Callers : callers[c].pc # "stop_join" /\ callers'[c].pc = "stop_join"

\* C30: start_monitoring and stop_monitoring leave every series as it is,
\* whether they succeed or fail; a series changes only in _add_metrics: a
\* sample is put at its end, or the trim leaves a suffix of it.
C30_ControlKeepsHistory ==
    [][/\ ControlStep => metrics_store' = metrics_store
       /\ \A m \in Categories :
             metrics_store'[m] # metrics_store[m] =>
                 \E w \in Workers :
                     /\ threads[w].pc \in {"add", "trim"}
                     /\ CatOrder[threads[w].cat] = m
                     /\ \/ /\ threads[w].pc = "add"
                           /\ metrics_store'[m] = Append(metrics_store[m], threads[w].sample)
                        \/ /\ threads[w].pc = "trim"
                           /\ IsSuffix(metrics_store'[m], metrics_store[m])]_vars

\* After a stop and a restart get_*_metrics returns a sample of the stopped
\* loop followed by a sample of the restarted one.
C30_Witness ==
    \E c \in Callers :
        /\ callers[c].pc = "metrics_return"
        /\ Len(callers[c].ret) = 2
        /\ ticked[callers[c].ret[1].t].thread # ticked[callers[c].ret[2].t].thread
        /\ lastCtl = [op |-> "start", ret |-> TRUE, running |-> FALSE]
====
